---- MODULE Spec2Model ----
(***************************************************************************)
(* create-app-booster: the command-line action of src/src/index.js as a    *)
(* state machine.  One run of the program is: the prompts that collect the *)
(* choices, the probe of the package manager, and then the pipeline        *)
(* (scaffold, service worker, template copy, manifest merge, installs,     *)
(* git, Husky, commit, README), with the SIGINT handler running beside it. *)
(***************************************************************************)
EXTENDS Integers, Sequences, FiniteSets, TLC

\* ------------------------------------------------------- values of prompts
NoArg == <<>>
\* project names are sequences of characters
CurrentDirName == <<".">>
NameInputs == {CurrentDirName, <<"a", "-">>, <<"a", " ">>}

ProjectTypes == {"vite", "nextjs"}
PackageManagers == {"npm", "pnpm"}
LanguageOptions == {"typescript", "javascript", "typescript-sw", "javascript-sw"}
SetupChoices == {"linting", "jest", "github", "snyk", "husky", "git"}
DeploymentPlatforms == {"none", "vercel", "netlify", "render"}

\* the answers the run is explored with: no option, each option alone, the
\* default selection of the checkbox prompt (index.js:188), and linting with
\* testing and git
DefaultSetup == {"linting", "jest", "git", "husky"}
SetupInputs ==
    {s \in SUBSET SetupChoices : Cardinality(s) \in {0, 1}}
        \cup {DefaultSetup, {"linting", "jest", "git"}}
DeploymentInputs == {"none", "vercel"}

\* index.js:74  /^([A-Za-z\-_\d])+$/ on one character
NameCharOk(c) == c \in {"a", "Z", "7", "-", "_"}

\* index.js:72-76  validate of the projectName prompt
ValidateName(input) ==
    \/ input = CurrentDirName
    \/ Len(input) > 0 /\ \A i \in 1..Len(input) : NameCharOk(input[i])

\* index.js:156  languageOption.includes('typescript')
UseTypeScript(languageOption) == languageOption \in {"typescript", "typescript-sw"}

\* index.js:157  languageOption.includes('-sw')
UseServiceWorker(languageOption) == languageOption \in {"typescript-sw", "javascript-sw"}

\* ------------------------------------------------------ package manifest
\* A script command is a sequence of pieces of text in which each quote
\* character is a piece of its own; the empty command is <<>>.
SQ == "'"
DQ == "dq"
HuskyInstallCmd == <<"husky install">>
LintCmd == <<"eslint . --ext ts,tsx,js,jsx --report-unused-disable-directives --max-warnings 0">>
LintFixCmd == <<"eslint . --ext ts,tsx,js,jsx --fix">>
FormatCmd == <<"prettier --write ", DQ, "./**/*.{js,jsx,ts,tsx,css,md,json}", DQ>>
LintStagedConfig == "eslint --fix, prettier --write / prettier --write"

\* String.prototype.includes("'")
IncludesSQ(cmd) == \E i \in 1..Len(cmd) : cmd[i] = SQ

\* String.prototype.replace(/'/g, '"')
ReplaceSQ(cmd) == [i \in 1..Len(cmd) |-> IF cmd[i] = SQ THEN DQ ELSE cmd[i]]

\* object spread { ...a, ...b }: the keys of both, b's value on a collision
Spread(a, b) == [k \in DOMAIN a \cup DOMAIN b |-> IF k \in DOMAIN b THEN b[k] ELSE a[k]]

\* delete o[key]
Delete(o, key) == [k \in DOMAIN o \ {key} |-> o[k]]

NoDeps == [k \in {} |-> ""]
NoAdditions == [absent |-> TRUE]

\* StripPrepare without the delete of index.js:1082, 1142
StripPrepareKeep(scripts) == scripts

\* index.js:1081-1083
StripPrepare(scripts) ==
    IF "prepare" \in DOMAIN scripts /\ scripts["prepare"] = HuskyInstallCmd
    THEN Delete(scripts, "prepare")
    ELSE scripts

\* index.js:1085-1099
LintScripts(scripts) ==
    LET s1 == Spread(scripts, [k \in {"lint", "lint:fix"} |->
                                  IF k = "lint" THEN LintCmd ELSE LintFixCmd])
        hasFormat == "format" \in DOMAIN s1 /\ s1["format"] # <<>>
        s2 == IF hasFormat /\ IncludesSQ(s1["format"])
              THEN [s1 EXCEPT !["format"] = ReplaceSQ(s1["format"])]
              ELSE s1
    IN  IF ~hasFormat
        THEN Spread(s2, [k \in {"format"} |-> FormatCmd])
        ELSE s2

\* index.js:1101-1108
TestScripts(scripts) ==
    Spread(scripts, [k \in {"test", "test:watch", "test:coverage"} |->
                       CASE k = "test" -> <<"jest">>
                         [] k = "test:watch" -> <<"jest --watch">>
                         [] OTHER -> <<"jest --coverage">>])

\* index.js:1139-1150
ScriptsFromAdditions(additionsScripts) ==
    LET stripped == StripPrepare(additionsScripts)
    IN  [k \in DOMAIN stripped |->
            IF stripped[k] # <<>> /\ IncludesSQ(stripped[k])
            THEN ReplaceSQ(stripped[k])
            ELSE stripped[k]]

\* MergeAdditions with the devDependencies spread taken from the wrong field
\* of the manifest (index.js:1134)
MergeAdditionsWrongField(packageJson, additions) ==
    IF additions = NoAdditions
    THEN packageJson
    ELSE [packageJson EXCEPT
            !.dependencies = Spread(packageJson.dependencies, additions.dependencies),
            !.devDependencies = Spread(packageJson.dependencies, additions.devDependencies),
            !.scripts = Spread(packageJson.scripts, ScriptsFromAdditions(additions.scripts))]

\* MergeAdditions with the scripts of the descriptor assigned to the manifest
\* instead of spread over its scripts (index.js:1152-1155)
MergeAdditionsAssignScripts(packageJson, additions) ==
    IF additions = NoAdditions
    THEN packageJson
    ELSE [packageJson EXCEPT
            !.dependencies = Spread(packageJson.dependencies, additions.dependencies),
            !.devDependencies = Spread(packageJson.devDependencies, additions.devDependencies),
            !.scripts = ScriptsFromAdditions(additions.scripts)]

\* index.js:1126-1156
MergeAdditions(packageJson, additions) ==
    IF additions = NoAdditions
    THEN packageJson
    ELSE [packageJson EXCEPT
            !.dependencies = Spread(packageJson.dependencies, additions.dependencies),
            !.devDependencies = Spread(packageJson.devDependencies, additions.devDependencies),
            !.scripts = Spread(packageJson.scripts, ScriptsFromAdditions(additions.scripts))]

\* index.js:1075-1160  the manifest updatePackageJson writes, from the manifest
\* it read, the preferences and templates/<projectType>/package-additions.json
UpdatePackageJson(packageJson, userPreferences, additions) ==
    LET p0 == [packageJson EXCEPT !.scripts = StripPrepare(packageJson.scripts)]
        p1 == IF userPreferences.enableLinting
              THEN [p0 EXCEPT !.scripts = LintScripts(p0.scripts)] ELSE p0
        p2 == IF userPreferences.setupJest
              THEN [p1 EXCEPT !.scripts = TestScripts(p1.scripts)] ELSE p1
        p3 == IF userPreferences.setupHusky
              THEN [p2 EXCEPT !.lintStaged = LintStagedConfig] ELSE p2
    IN  MergeAdditions(p3, additions)

\* index.js:591-616  the manifest createNextProject writes
NextPackageJson(useTypeScript) ==
    [scripts |-> [k \in {"dev", "build", "start", "lint"} |->
                     CASE k = "dev" -> <<"next dev">>
                       [] k = "build" -> <<"next build">>
                       [] k = "start" -> <<"next start">>
                       [] OTHER -> <<"next lint">>],
     dependencies |-> [k \in {"next", "react", "react-dom"} |->
                     CASE k = "next" -> "^14.0.0" [] OTHER -> "^18.2.0"],
     devDependencies |-> IF useTypeScript
                         THEN [k \in {"@types/node", "@types/react", "@types/react-dom", "typescript"} |->
                                 CASE k = "@types/node" -> "^20.1.0"
                                   [] k = "typescript" -> "^5.0.0"
                                   [] OTHER -> "^18.2.0"]
                         ELSE NoDeps,
     lintStaged |-> "none"]

\* ------------------------------------------------------- dependency lists
\* index.js:323-390  devDependencies
DevDependencies(p) ==
    (IF p.enableLinting
     THEN <<"eslint@~8.38.0", "prettier@latest", "eslint-config-prettier@latest",
            "eslint-plugin-prettier@latest">>
          \o (IF p.useTypeScript
              THEN <<"@typescript-eslint/eslint-plugin@^6.14.0",
                     "@typescript-eslint/parser@^6.14.0",
                     "@typescript-eslint/utils@^6.14.0">>
              ELSE <<>>)
          \o (IF p.projectType = "vite"
              THEN <<"eslint-plugin-react@^7.33.2", "eslint-plugin-react-hooks@^4.6.0",
                     "eslint-plugin-react-refresh@^0.4.5">>
              ELSE <<>>)
     ELSE <<>>)
    \o
    (IF p.setupJest
     THEN <<"jest@latest", "@testing-library/react@latest", "@testing-library/jest-dom@latest",
            "@testing-library/user-event@latest", "identity-obj-proxy@latest">>
          \o (IF p.useTypeScript THEN <<"@types/jest@latest", "ts-jest@latest">> ELSE <<>>)
          \o (IF p.projectType = "vite"
              THEN <<"jest-environment-jsdom@latest">>
                   \o (IF p.useTypeScript
                       THEN <<"@vitejs/plugin-react@latest", "vite-tsconfig-paths@latest">>
                       ELSE <<>>)
              ELSE <<>>)
     ELSE <<>>)
    \o
    (IF p.useServiceWorker /\ p.projectType = "vite"
     THEN <<"vite-plugin-pwa@latest", "workbox-window@latest", "workbox-core@latest",
            "workbox-precaching@latest">>
     ELSE <<>>)
    \o
    (IF p.setupHusky THEN <<"husky@latest", "lint-staged@latest">> ELSE <<>>)

\* index.js:324, 375-386  dependencies
Dependencies(p) ==
    IF p.useServiceWorker /\ p.projectType # "vite" THEN <<"next-pwa@latest">> ELSE <<>>

Range(seq) == {seq[i] : i \in 1..Len(seq)}

\* ------------------------------------------------------------ bundle plan
\* The templates/ directory the program ships with, as the set of its
\* directories and files that the program probes with fs.existsSync.  Of the
\* optional bundles, Vite has a plain-JS test bundle and a Vercel bundle of
\* its own and Next.js has neither; only Vite has a package-additions.json.
TemplatesOnDisk ==
    {"common/github", "common/snyk", "common/linting", "common/husky", "common/jest",
     "common/deployment/vercel", "common/deployment/netlify", "common/deployment/render",
     "vite/linting", "vite/linting/.eslintrc.js.non-ts", "nextjs/linting",
     "vite/jest-ts", "nextjs/jest-ts", "vite/jest", "vite/deployment/vercel",
     "vite/package-additions.json", "common/README.md"}

\* TemplatesToCopy with the project-type deployment bundle pushed without the
\* fs.existsSync probe of index.js:303
TemplatesToCopyNoDeploymentProbe(p, disk) ==
    (IF p.setupGithubActions THEN <<"common/github">> ELSE <<>>)
    \o (IF p.setupSnyk THEN <<"common/snyk">> ELSE <<>>)
    \o (IF p.enableLinting THEN <<"common/linting", p.projectType \o "/linting">> ELSE <<>>)
    \o (IF p.setupHusky THEN <<"common/husky">> ELSE <<>>)
    \o (IF p.setupJest
        THEN <<"common/jest">>
             \o (IF p.useTypeScript
                 THEN <<p.projectType \o "/jest-ts">>
                 ELSE IF (p.projectType \o "/jest") \in disk
                      THEN <<p.projectType \o "/jest">> ELSE <<>>)
        ELSE <<>>)
    \o (IF p.deploymentPlatform # "none"
        THEN <<"common/deployment/" \o p.deploymentPlatform,
               p.projectType \o "/deployment/" \o p.deploymentPlatform>>
        ELSE <<>>)

\* TemplatesToCopy with the two pushes of index.js:278-279 in the other order
TemplatesToCopyLintingSwapped(p, disk) ==
    (IF p.setupGithubActions THEN <<"common/github">> ELSE <<>>)
    \o (IF p.setupSnyk THEN <<"common/snyk">> ELSE <<>>)
    \o (IF p.enableLinting THEN <<p.projectType \o "/linting", "common/linting">> ELSE <<>>)
    \o (IF p.setupHusky THEN <<"common/husky">> ELSE <<>>)
    \o (IF p.setupJest
        THEN <<"common/jest">>
             \o (IF p.useTypeScript
                 THEN <<p.projectType \o "/jest-ts">>
                 ELSE IF (p.projectType \o "/jest") \in disk
                      THEN <<p.projectType \o "/jest">> ELSE <<>>)
        ELSE <<>>)
    \o (IF p.deploymentPlatform # "none"
        THEN <<"common/deployment/" \o p.deploymentPlatform>>
             \o (IF (p.projectType \o "/deployment/" \o p.deploymentPlatform) \in disk
                 THEN <<p.projectType \o "/deployment/" \o p.deploymentPlatform>>
                 ELSE <<>>)
        ELSE <<>>)

\* TemplatesToCopy with the plain-JS test bundle pushed without the
\* fs.existsSync probe of index.js:292
TemplatesToCopyNoJestProbe(p, disk) ==
    (IF p.setupGithubActions THEN <<"common/github">> ELSE <<>>)
    \o (IF p.setupSnyk THEN <<"common/snyk">> ELSE <<>>)
    \o (IF p.enableLinting THEN <<"common/linting", p.projectType \o "/linting">> ELSE <<>>)
    \o (IF p.setupHusky THEN <<"common/husky">> ELSE <<>>)
    \o (IF p.setupJest
        THEN <<"common/jest">>
             \o (IF p.useTypeScript
                 THEN <<p.projectType \o "/jest-ts">>
                 ELSE <<p.projectType \o "/jest">>)
        ELSE <<>>)
    \o (IF p.deploymentPlatform # "none"
        THEN <<"common/deployment/" \o p.deploymentPlatform>>
             \o (IF (p.projectType \o "/deployment/" \o p.deploymentPlatform) \in disk
                 THEN <<p.projectType \o "/deployment/" \o p.deploymentPlatform>>
                 ELSE <<>>)
        ELSE <<>>)

\* index.js:266-306  templatesToCopy, given what fs.existsSync finds on disk
TemplatesToCopy(p, disk) ==
    (IF p.setupGithubActions THEN <<"common/github">> ELSE <<>>)
    \o (IF p.setupSnyk THEN <<"common/snyk">> ELSE <<>>)
    \o (IF p.enableLinting THEN <<"common/linting", p.projectType \o "/linting">> ELSE <<>>)
    \o (IF p.setupHusky THEN <<"common/husky">> ELSE <<>>)
    \o (IF p.setupJest
        THEN <<"common/jest">>
             \o (IF p.useTypeScript
                 THEN <<p.projectType \o "/jest-ts">>
                 ELSE IF (p.projectType \o "/jest") \in disk
                      THEN <<p.projectType \o "/jest">> ELSE <<>>)
        ELSE <<>>)
    \o (IF p.deploymentPlatform # "none"
        THEN <<"common/deployment/" \o p.deploymentPlatform>>
             \o (IF (p.projectType \o "/deployment/" \o p.deploymentPlatform) \in disk
                 THEN <<p.projectType \o "/deployment/" \o p.deploymentPlatform>>
                 ELSE <<>>)
        ELSE <<>>)

VARIABLES
    pc,               \* position of the action callback (index.js:61-561)
    targetDir,        \* index.js:64
    dir,              \* resolvedTargetDir on disk: "absent", "nonempty" (foreign content), "empty"
    mutated,          \* the run has created or emptied the directory or written a file
    packageManager,   \* index.js:120 (the requested manager)
    pnpmAvailable,    \* can the pnpm binary be executed: "unknown" until probed, "yes", "no"
    onDisk,           \* the directories and files of templates/ that fs.existsSync finds
    prefs,            \* userPreferences, index.js:227-242
    templatesToCopy,  \* index.js:267
    pending,          \* bundles whose fs.copy has been started and has not finished
    files,            \* files the run has put in the target directory, by relative path
    pkg,              \* package.json in the target directory, or NoPkg
    additions,        \* package-additions.json as updatePackageJson read it
    written,          \* the manifests updatePackageJson has written, in order
    idx,              \* position of the per-specifier fallback loop
    tried,            \* specifiers passed to an individual install, per batch
    spinner,          \* mainSpinner, index.js:246
    sigint,           \* SIGINT handler: "idle", "asking" (prompt of index.js:30 open), "exited"
    resumed,          \* the handler has printed 'Continuing setup...' (index.js:43)
    warnings,         \* kinds of warning printed so far
    lastCmd,          \* the external command most recently run by execa
    requested,        \* specifiers passed to an install command of a package manager so far
    outcome,          \* "running", "cancelled", "success", "failed", "aborted"
    exitCode          \* -1 while the process lives, else its exit status

vars == <<pc, targetDir, dir, mutated, packageManager, pnpmAvailable, onDisk, prefs,
          templatesToCopy, pending, files, pkg, additions, written, idx, tried,
          spinner, sigint, resumed, warnings, lastCmd, requested, outcome,
          exitCode>>

\* the variables only the pipeline writes
pipeVars == <<templatesToCopy, pending, files, pkg, additions, written, idx, tried>>

NoFiles == [k \in {} |-> ""]
NoPkg == [absent |-> TRUE]
NoCmd == [bin |-> "none", op |-> "none", specs |-> <<>>, ok |-> TRUE]

InitPrefs ==
    [projectType |-> "vite", packageManager |-> "npm", useTypeScript |-> FALSE,
     useServiceWorker |-> FALSE, languageOption |-> "javascript",
     enableLinting |-> FALSE, setupJest |-> FALSE, setupGithubActions |-> FALSE,
     setupSnyk |-> FALSE, deploymentPlatform |-> "none", initGit |-> FALSE,
     setupHusky |-> FALSE, isCurrentDir |-> FALSE]

Init ==
    /\ pc = "start"
    /\ targetDir = NoArg
    /\ dir \in {"absent", "nonempty"}
    /\ mutated = FALSE
    /\ packageManager = "npm"
    /\ pnpmAvailable = "unknown"
    /\ onDisk = TemplatesOnDisk
    /\ prefs = InitPrefs
    /\ templatesToCopy = <<>>
    /\ pending = {}
    /\ files = NoFiles
    /\ pkg = NoPkg
    /\ additions = NoAdditions
    /\ written = <<>>
    /\ idx = 0
    /\ tried = [dev |-> {}, dep |-> {}]
    /\ spinner = "none"
    /\ sigint = "idle"
    /\ resumed = FALSE
    /\ warnings = {}
    /\ lastCmd = NoCmd
    /\ requested = {}
    /\ outcome = "running"
    /\ exitCode = -1

Alive == exitCode = -1
Running == Alive /\ outcome = "running"

\* the callback returns (or falls off its end): nothing is left on the event
\* loop unless the SIGINT prompt is open, and node exits with status 0
ReturnWith(result, copies) ==
    /\ outcome' = result
    /\ pc' = "returned"
    /\ exitCode' = IF sigint = "asking" \/ copies # {} THEN exitCode ELSE 0

Return(result) == ReturnWith(result, pending)


\* ------------------------------------------------------------ the prompts
\* index.js:82-106, run synchronously once the name is known
ResolveName(name) ==
    LET isCurrentDir == name = CurrentDirName IN
    /\ targetDir' = name
    /\ prefs' = [prefs EXCEPT !.isCurrentDir = isCurrentDir]
    /\ IF dir = "nonempty" /\ ~isCurrentDir
       THEN /\ pc' = "askOverwrite"
            /\ UNCHANGED <<dir, mutated>>
       ELSE /\ pc' = "askProjectType"
            /\ dir' = IF isCurrentDir THEN dir ELSE "empty"
            /\ mutated' = (~isCurrentDir /\ dir = "absent")

\* index.js:61-65  the action starts, with or without [project-directory]
Start ==
    /\ Running /\ pc = "start"
    /\ \E projectDirectory \in NameInputs \cup {NoArg} :
          /\ projectDirectory = CurrentDirName => dir = "nonempty"
          /\ IF projectDirectory = NoArg
             THEN /\ pc' = "askName"
                  /\ UNCHANGED <<pipeVars, targetDir, dir, mutated, prefs>>
             ELSE ResolveName(projectDirectory)
    /\ UNCHANGED <<pipeVars, packageManager, pnpmAvailable, onDisk, spinner, sigint, resumed, warnings, lastCmd, requested, outcome, exitCode>>

\* index.js:66-80  the prompt answers only with an input that validates
AskName ==
    /\ Running /\ pc = "askName"
    /\ \E input \in NameInputs :
          /\ ValidateName(input)
          /\ input = CurrentDirName => dir = "nonempty"
          /\ ResolveName(input)
    /\ UNCHANGED <<pipeVars, packageManager, pnpmAvailable, onDisk, spinner, sigint, resumed, warnings, lastCmd, requested, outcome, exitCode>>

\* index.js:87-102
AskOverwrite ==
    /\ Running /\ pc = "askOverwrite"
    /\ \E overwrite \in BOOLEAN :
          IF ~overwrite
          THEN /\ Return("cancelled")
               /\ UNCHANGED <<dir, mutated>>
          ELSE /\ dir' = "empty"
               /\ mutated' = TRUE
               /\ pc' = "askProjectType"
               /\ UNCHANGED <<outcome, exitCode>>
    /\ UNCHANGED <<pipeVars, targetDir, packageManager, pnpmAvailable, onDisk, prefs, spinner, sigint, resumed, warnings, lastCmd, requested>>

\* index.js:108-118
AskProjectType ==
    /\ Running /\ pc = "askProjectType"
    /\ \E projectType \in ProjectTypes :
          prefs' = [prefs EXCEPT !.projectType = projectType]
    /\ pc' = "askPackageManager"
    /\ UNCHANGED <<pipeVars, targetDir, dir, mutated, packageManager, pnpmAvailable, onDisk, spinner,
                   sigint, resumed, warnings, lastCmd, requested, outcome, exitCode>>

\* index.js:120-135  the answer, and for pnpm the start of the version probe
AskPackageManager ==
    /\ Running /\ pc = "askPackageManager"
    /\ \E pm \in PackageManagers :
          /\ packageManager' = pm
          /\ prefs' = [prefs EXCEPT !.packageManager = pm]
          /\ pc' = IF pm = "pnpm" THEN "probePnpm" ELSE "askLanguage"
    /\ UNCHANGED <<pipeVars, targetDir, dir, mutated, pnpmAvailable, onDisk, spinner, sigint, resumed, warnings, lastCmd, requested, outcome, exitCode>>

\* index.js:134-139  the probe returns
ProbePnpm ==
    /\ Running /\ pc = "probePnpm"
    /\ \E ok \in BOOLEAN :
          /\ pnpmAvailable' = IF ok THEN "yes" ELSE "no"
          /\ lastCmd' = [bin |-> "pnpm", op |-> "--version", specs |-> <<>>, ok |-> ok]
          /\ IF ok
             THEN UNCHANGED <<prefs, warnings>>
             ELSE /\ prefs' = [prefs EXCEPT !.packageManager = "npm"]
                  /\ warnings' = warnings \cup {"pnpm not found"}
    /\ pc' = "askLanguage"
    /\ UNCHANGED <<pipeVars, targetDir, dir, mutated, packageManager, onDisk, requested, spinner,
                   sigint, resumed, outcome, exitCode>>

\* index.js:142-157
AskLanguage ==
    /\ Running /\ pc = "askLanguage"
    /\ \E languageOption \in LanguageOptions :
          prefs' = [prefs EXCEPT !.languageOption = languageOption,
                                 !.useTypeScript = UseTypeScript(languageOption),
                                 !.useServiceWorker = UseServiceWorker(languageOption)]
    /\ pc' = "confirmLanguage"
    /\ UNCHANGED <<pipeVars, targetDir, dir, mutated, packageManager, pnpmAvailable, onDisk, spinner,
                   sigint, resumed, warnings, lastCmd, requested, outcome, exitCode>>

\* index.js:159-171
ConfirmLanguage ==
    /\ Running /\ pc = "confirmLanguage"
    /\ \E confirmLanguageOption \in BOOLEAN :
          IF ~confirmLanguageOption
          THEN Return("cancelled")
          ELSE /\ pc' = "askSetup"
               /\ UNCHANGED <<outcome, exitCode>>
    /\ UNCHANGED <<pipeVars, targetDir, dir, mutated, packageManager, pnpmAvailable, onDisk, prefs,
                   spinner, sigint, resumed, warnings, lastCmd, requested>>

\* index.js:173-190, 206-211
AskSetup ==
    /\ Running /\ pc = "askSetup"
    /\ \E selectedSetup \in SetupInputs :
          prefs' = [prefs EXCEPT !.enableLinting = "linting" \in selectedSetup,
                                 !.setupJest = "jest" \in selectedSetup,
                                 !.setupGithubActions = "github" \in selectedSetup,
                                 !.setupSnyk = "snyk" \in selectedSetup,
                                 !.setupHusky = "husky" \in selectedSetup,
                                 !.initGit = "git" \in selectedSetup]
    /\ pc' = "askDeployment"
    /\ UNCHANGED <<pipeVars, targetDir, dir, mutated, packageManager, pnpmAvailable, onDisk, spinner,
                   sigint, resumed, warnings, lastCmd, requested, outcome, exitCode>>

\* index.js:192-204
AskDeployment ==
    /\ Running /\ pc = "askDeployment"
    /\ \E deploymentPlatform \in DeploymentInputs :
          prefs' = [prefs EXCEPT !.deploymentPlatform = deploymentPlatform]
    /\ pc' = "confirmSetup"
    /\ UNCHANGED <<pipeVars, targetDir, dir, mutated, packageManager, pnpmAvailable, onDisk, spinner,
                   sigint, resumed, warnings, lastCmd, requested, outcome, exitCode>>

\* index.js:213-254  the last confirmation; on yes the spinner starts and the
\* scaffold generator is called
ConfirmSetup ==
    /\ Running /\ pc = "confirmSetup"
    /\ \E confirmSetup \in BOOLEAN :
          IF ~confirmSetup
          THEN /\ Return("cancelled")
               /\ UNCHANGED spinner
          ELSE /\ spinner' = "spinning"
               /\ pc' = "scaffold"
               /\ UNCHANGED <<outcome, exitCode>>
    /\ UNCHANGED <<pipeVars, targetDir, dir, mutated, packageManager, pnpmAvailable, onDisk, prefs,
                   sigint, resumed, warnings, lastCmd, requested>>

\* ----------------------------------------------------------- the pipeline
File(content) == [content |-> content, mode |-> "0644"]

WriteFile(fs, path, file) == Spread(fs, [k \in {path} |-> file])

\* the run does not have the pnpm binary when the probe has failed
CanSucceed(bin) == ~(bin = "pnpm" /\ pnpmAvailable = "no")

Exec(bin, op, specs, ok) ==
    /\ lastCmd' = [bin |-> bin, op |-> op, specs |-> specs, ok |-> ok]
    /\ requested' = IF op \in {"install", "add"} THEN requested \cup Range(specs) ELSE requested

\* index.js:557-560  the catch of the pipeline: report, and return
Fatal ==
    /\ spinner' = "fail"
    /\ Return("failed")

\* what create-vite leaves as package.json (the generator is external)
ViteManifests ==
    { [scripts |-> [k \in {"dev", "prepare"} |-> IF k = "dev" THEN <<"vite">> ELSE HuskyInstallCmd],
       dependencies |-> [k \in {"react"} |-> "^18.2.0"],
       devDependencies |-> [k \in {"vite"} |-> "^5.0.0"],
       lintStaged |-> "none"] }

\* templates/vite/package-additions.json
ViteAdditions ==
    [scripts |-> [k \in {"prepare", "format"} |->
                    IF k = "prepare" THEN HuskyInstallCmd
                    ELSE <<"prettier --write ", SQ, "src", SQ>>],
     dependencies |-> NoDeps,
     devDependencies |-> [k \in {"vite"} |-> "^5.1.0"]]

\* index.js:1123-1127  the descriptor updatePackageJson finds for the type
PackageAdditions(projectType, disk) ==
    IF (projectType \o "/package-additions.json") \in disk
    THEN ViteAdditions
    ELSE NoAdditions

\* CreateViteProject with the error of create-vite caught and printed as a
\* warning instead of reaching the catch of index.js:557
CreateViteProjectWarnOnly ==
    /\ Running /\ pc = "scaffold" /\ prefs.projectType = "vite"
    /\ LET bin == IF prefs.packageManager = "npm" THEN "npx" ELSE "pnpm" IN
       \E ok \in BOOLEAN :
          /\ ok => CanSucceed(bin)
          /\ Exec(bin, "create-vite", <<>>, ok)
          /\ IF ok
             THEN /\ \E m \in ViteManifests : pkg' = m
                  /\ files' = WriteFile(files, ".gitignore", File("create-vite"))
                  /\ mutated' = TRUE
                  /\ UNCHANGED warnings
             ELSE /\ warnings' = warnings \cup {"scaffold"}
                  /\ UNCHANGED <<pkg, files, mutated>>
          /\ pc' = "license"
          /\ UNCHANGED <<spinner, outcome, exitCode>>
    /\ UNCHANGED <<targetDir, dir, packageManager, pnpmAvailable, onDisk, prefs, templatesToCopy,
                   pending, additions, written, idx, tried, sigint, resumed>>

\* index.js:563-578  create-vite returns
CreateViteProject ==
    /\ Running /\ pc = "scaffold" /\ prefs.projectType = "vite"
    /\ LET bin == IF prefs.packageManager = "npm" THEN "npx" ELSE "pnpm" IN
       \E ok \in BOOLEAN :
          /\ ok => CanSucceed(bin)
          /\ Exec(bin, "create-vite", <<>>, ok)
          /\ IF ok
             THEN /\ \E m \in ViteManifests : pkg' = m
                  /\ files' = WriteFile(files, ".gitignore", File("create-vite"))
                  /\ mutated' = TRUE
                  /\ pc' = "license"
                  /\ UNCHANGED <<spinner, outcome, exitCode>>
             ELSE /\ Fatal
                  /\ UNCHANGED <<pkg, files, mutated>>
    /\ UNCHANGED <<targetDir, dir, packageManager, pnpmAvailable, onDisk, prefs, templatesToCopy,
                   pending, additions, written, idx, tried, sigint, resumed, warnings>>

\* index.js:580-772  createNextProject writes the project files and starts
\* the install; an error of a write is rethrown
CreateNextProject ==
    /\ Running /\ pc = "scaffold" /\ prefs.projectType = "nextjs"
    /\ \E ok \in BOOLEAN :
          IF ok
          THEN /\ pkg' = NextPackageJson(prefs.useTypeScript)
               /\ files' = WriteFile(files, ".gitignore", File("createNextProject"))
               /\ mutated' = TRUE
               /\ pc' = "scaffoldInstall"
               /\ UNCHANGED <<spinner, outcome, exitCode>>
          ELSE /\ Fatal
               /\ mutated' = TRUE
               /\ UNCHANGED <<pkg, files>>
    /\ UNCHANGED <<targetDir, dir, packageManager, pnpmAvailable, onDisk, prefs, templatesToCopy,
                   pending, additions, written, idx, tried, sigint, resumed, warnings,
                   lastCmd, requested>>

\* index.js:772-782  the install of createNextProject returns
CreateNextInstall ==
    /\ Running /\ pc = "scaffoldInstall"
    /\ \E ok \in BOOLEAN :
          /\ ok => CanSucceed(prefs.packageManager)
          /\ Exec(prefs.packageManager, "install", <<>>, ok)
          /\ IF ok
             THEN /\ pc' = "license"
                  /\ UNCHANGED <<spinner, outcome, exitCode>>
             ELSE Fatal
    /\ UNCHANGED <<targetDir, dir, mutated, packageManager, pnpmAvailable, onDisk, prefs, pipeVars,
                   sigint, resumed, warnings>>

\* index.js:256-311  the LICENSE copy returns; the plan is built.  The package
\* ships its LICENSE; a failed copy only prints a warning (index.js:262-264)
\* and changes nothing a later stage reads.
CopyLicense ==
    /\ Running /\ pc = "license"
    /\ files' = WriteFile(files, "LICENSE", File("LICENSE"))
    /\ templatesToCopy' = TemplatesToCopy(prefs, onDisk)
    /\ pc' = IF prefs.useServiceWorker THEN "serviceWorker" ELSE "copy"
    /\ UNCHANGED <<targetDir, dir, mutated, packageManager, pnpmAvailable, onDisk, prefs, pending,
                   pkg, additions, written, idx, tried, spinner, sigint, resumed,
                   warnings, lastCmd, requested, outcome, exitCode>>

\* index.js:785-985  setupServiceWorker for Vite: file writes only
SetupServiceWorkerVite ==
    /\ Running /\ pc = "serviceWorker" /\ prefs.projectType = "vite"
    /\ \E ok \in BOOLEAN :
          IF ok
          THEN /\ files' = WriteFile(files, "src/sw", File("setupServiceWorker"))
               /\ pc' = "copy"
               /\ UNCHANGED <<spinner, outcome, exitCode>>
          ELSE /\ Fatal
               /\ UNCHANGED files
    /\ UNCHANGED <<targetDir, dir, mutated, packageManager, pnpmAvailable, onDisk, prefs,
                   templatesToCopy, pending, pkg, additions, written, idx, tried, sigint, resumed, warnings, lastCmd, requested>>

\* index.js:987-999  setupServiceWorker for Next.js: npm install --save next-pwa
SetupServiceWorkerNextInstall ==
    /\ Running /\ pc = "serviceWorker" /\ prefs.projectType = "nextjs"
    /\ \E ok \in BOOLEAN :
          /\ Exec("npm", "install", <<"next-pwa">>, ok)
          /\ warnings' = IF ok THEN warnings ELSE warnings \cup {"next-pwa"}
    /\ pc' = "serviceWorkerFiles"
    /\ UNCHANGED <<targetDir, dir, mutated, packageManager, pnpmAvailable, onDisk, prefs, pipeVars,
                   spinner, sigint, resumed, outcome, exitCode>>

\* index.js:1001-1047  the files of setupServiceWorker for Next.js
SetupServiceWorkerNextFiles ==
    /\ Running /\ pc = "serviceWorkerFiles"
    /\ \E ok \in BOOLEAN :
          IF ok
          THEN /\ files' = WriteFile(files, "public/manifest.json", File("setupServiceWorker"))
               /\ pc' = "copy"
               /\ UNCHANGED <<spinner, outcome, exitCode>>
          ELSE /\ Fatal
               /\ UNCHANGED files
    /\ UNCHANGED <<targetDir, dir, mutated, packageManager, pnpmAvailable, onDisk, prefs,
                   templatesToCopy, pending, pkg, additions, written, idx, tried, sigint, resumed, warnings, lastCmd, requested>>

\* the file a bundle of templates/ carries: templates/vite/linting holds
\* .eslintrc.js, and so does the common linting bundle it is there to override
TemplatePath(bundle) ==
    CASE bundle = "common/github" -> ".github/workflows/ci.yml"
      [] bundle = "common/snyk" -> ".snyk"
      [] bundle = "common/husky" -> ".lintstagedrc"
      [] bundle \in {"common/linting", "vite/linting", "nextjs/linting"} -> ".eslintrc.js"
      [] bundle = "common/jest" -> "jest.setup.js"
      [] bundle \in {"vite/jest", "nextjs/jest", "vite/jest-ts", "nextjs/jest-ts"}
           -> "jest.config.js"
      [] bundle \in {"common/deployment/vercel", "common/deployment/netlify",
                     "common/deployment/render"} -> "deployment.config"
      [] OTHER -> "deployment.md"

\* index.js:1065-1070  what copyTemplates copies to the path: the file of the
\* bundle, or for vite/linting without TypeScript its .non-ts sibling if there
CopiedContent(bundle, p, disk) ==
    IF bundle = "vite/linting" /\ ~p.useTypeScript
       /\ (bundle \o "/.eslintrc.js.non-ts") \in disk
    THEN bundle \o "/.eslintrc.js.non-ts"
    ELSE bundle

\* index.js:313-316, 1051-1055  copyTemplates is called for every bundle of the
\* plan; one that is on disk starts its copies at once, and Promise.all waits
\* for all of them
StartCopy ==
    /\ Running /\ pc = "copy"
    /\ pending' = Range(templatesToCopy) \cap onDisk
    /\ pc' = IF Range(templatesToCopy) \cap onDisk = {}
             THEN "updatePackageJson" ELSE "copying"
    /\ UNCHANGED <<targetDir, dir, mutated, packageManager, pnpmAvailable, onDisk, prefs,
                   templatesToCopy, files, pkg, additions, written, idx, tried, spinner, sigint, resumed, warnings, lastCmd, requested, outcome, exitCode>>

\* index.js:1057-1072  one started copy finishes, in whatever order the
\* filesystem serves them; the first to fail rejects Promise.all
CopyFile ==
    /\ Alive /\ pending # {}
    /\ \E bundle \in pending, ok \in BOOLEAN :
          LET rest == pending \ {bundle} IN
          /\ pending' = rest
          /\ IF ok
             THEN /\ files' = WriteFile(files, TemplatePath(bundle),
                                         File(CopiedContent(bundle, prefs, onDisk)))
                  /\ pc' = IF rest = {} /\ pc = "copying" THEN "updatePackageJson" ELSE pc
                  /\ exitCode' = IF rest = {} /\ pc = "returned" /\ sigint # "asking"
                                 THEN 0 ELSE exitCode
                  /\ UNCHANGED <<spinner, outcome>>
             ELSE /\ pc = "copying"
                  /\ spinner' = "fail"
                  /\ ReturnWith("failed", rest)
                  /\ UNCHANGED files
    /\ UNCHANGED <<targetDir, dir, mutated, packageManager, pnpmAvailable, onDisk, prefs,
                   templatesToCopy, pkg, additions, written, idx, tried, sigint, resumed, warnings, lastCmd, requested>>

\* the specifier lists of this run
devDependencies == DevDependencies(prefs)
dependencies == Dependencies(prefs)

\* AfterHusky with the commit block placed after setupReadme
AfterHuskyReadmeFirst == "readme"

\* index.js:476-479, 516  where the pipeline goes after the Husky block
AfterHusky == IF prefs.initGit THEN "gitAdd" ELSE "readme"

\* index.js:476-487  where it goes after the git init block
AfterGitInit ==
    IF prefs.setupHusky
    THEN IF "husky@latest" \notin Range(devDependencies) THEN "huskyForce" ELSE "huskyInstall"
    ELSE AfterHusky

\* index.js:443  after the dependencies batch
AfterDependencies == IF prefs.initGit THEN "gitInit" ELSE AfterGitInit

\* index.js:420  after the devDependencies batch
AfterDevDependencies == IF dependencies # <<>> THEN "depBatch" ELSE AfterDependencies

\* AfterInstall with the devDependencies batch of index.js:395-418 left out
AfterInstallSkipDev == AfterDevDependencies

\* index.js:395  after the install of the manifest
AfterInstall == IF devDependencies # <<>> THEN "devBatch" ELSE AfterDevDependencies

\* index.js:319, 1075-1160  updatePackageJson returns; the install is started
UpdatePackageJsonStep ==
    /\ Running /\ pc = "updatePackageJson"
    /\ \E ok \in BOOLEAN :
          IF ok
          THEN /\ additions' = PackageAdditions(prefs.projectType, onDisk)
               /\ pkg' = IF pkg = NoPkg THEN pkg ELSE UpdatePackageJson(pkg, prefs, additions')
               /\ written' = IF pkg = NoPkg THEN written ELSE Append(written, pkg')
               /\ pc' = "install"
               /\ UNCHANGED <<spinner, outcome, exitCode>>
          ELSE /\ Fatal
               /\ UNCHANGED <<pkg, additions, written>>
    /\ UNCHANGED <<targetDir, dir, mutated, packageManager, pnpmAvailable, onDisk, prefs,
                   templatesToCopy, pending, files, idx, tried, sigint, resumed,
                   warnings, lastCmd, requested>>

\* Install with a failed install logged as a warning and the pipeline going on
InstallWarnOnly ==
    /\ Running /\ pc = "install"
    /\ LET installCmd == IF packageManager = "npm" THEN "npm" ELSE "pnpm" IN
       \E ok \in BOOLEAN :
          /\ ok => CanSucceed(installCmd)
          /\ Exec(installCmd, "install", <<>>, ok)
          /\ pc' = AfterInstall
          /\ UNCHANGED <<spinner, outcome, exitCode>>
    /\ UNCHANGED <<targetDir, dir, mutated, packageManager, pnpmAvailable, onDisk, prefs, pipeVars,
                   sigint, resumed, warnings>>

\* index.js:392-393  the install of what the manifest declares returns
Install ==
    /\ Running /\ pc = "install"
    /\ LET installCmd == IF packageManager = "npm" THEN "npm" ELSE "pnpm" IN
       \E ok \in BOOLEAN :
          /\ ok => CanSucceed(installCmd)
          /\ Exec(installCmd, "install", <<>>, ok)
          /\ IF ok
             THEN /\ pc' = AfterInstall
                  /\ UNCHANGED <<spinner, outcome, exitCode>>
             ELSE Fatal
    /\ UNCHANGED <<targetDir, dir, mutated, packageManager, pnpmAvailable, onDisk, prefs, pipeVars,
                   sigint, resumed, warnings>>

\* index.js:398, 409  'install' for npm, 'add' for pnpm
AddOp == IF packageManager = "npm" THEN "install" ELSE "add"

\* BatchInstall with the catch of index.js:402 logging the failure and going
\* on without the per-specifier loop
BatchInstallNoFallback(kind, specs, fallback, after) ==
    \E ok \in BOOLEAN :
       /\ ok => CanSucceed(packageManager)
       /\ Exec(packageManager, AddOp, specs, ok)
       /\ warnings' = IF ok THEN warnings ELSE warnings \cup {kind \o " batch"}
       /\ pc' = after
       /\ UNCHANGED idx

\* index.js:396-404, 421-428  a batched install returns; on failure the
\* per-specifier loop is entered
BatchInstall(kind, specs, fallback, after) ==
    \E ok \in BOOLEAN :
       /\ ok => CanSucceed(packageManager)
       /\ Exec(packageManager, AddOp, specs, ok)
       /\ IF ok
          THEN /\ pc' = after
               /\ UNCHANGED <<idx, warnings>>
          ELSE /\ warnings' = warnings \cup {kind \o " batch"}
               /\ pc' = fallback
               /\ idx' = 1

\* EachInstall with a failed specifier leaving the loop (a break in the catch
\* of index.js:414)
EachInstallBreak(kind, specs, after) ==
    \E ok \in BOOLEAN :
       /\ ok => CanSucceed(packageManager)
       /\ Exec(packageManager, AddOp, <<specs[idx]>>, ok)
       /\ tried' = [tried EXCEPT ![kind] = @ \cup {specs[idx]}]
       /\ warnings' = IF ok THEN warnings ELSE warnings \cup {kind \o " specifier"}
       /\ IF ok /\ idx < Len(specs)
          THEN /\ idx' = idx + 1
               /\ UNCHANGED pc
          ELSE /\ idx' = 0
               /\ pc' = after

\* index.js:406-416, 430-439  one specifier of the loop returns; a failure
\* is a warning and the loop goes on
EachInstall(kind, specs, after) ==
    \E ok \in BOOLEAN :
       /\ ok => CanSucceed(packageManager)
       /\ Exec(packageManager, AddOp, <<specs[idx]>>, ok)
       /\ tried' = [tried EXCEPT ![kind] = @ \cup {specs[idx]}]
       /\ warnings' = IF ok THEN warnings ELSE warnings \cup {kind \o " specifier"}
       /\ IF idx < Len(specs)
          THEN /\ idx' = idx + 1
               /\ UNCHANGED pc
          ELSE /\ idx' = 0
               /\ pc' = after

DevBatch ==
    /\ Running /\ pc = "devBatch"
    /\ BatchInstall("dev", devDependencies, "devFallback", AfterDevDependencies)
    /\ UNCHANGED <<targetDir, dir, mutated, packageManager, pnpmAvailable, onDisk, prefs,
                   templatesToCopy, pending, files, pkg, additions, written, tried, spinner, sigint, resumed, outcome, exitCode>>

DevFallback ==
    /\ Running /\ pc = "devFallback"
    /\ EachInstall("dev", devDependencies, AfterDevDependencies)
    /\ UNCHANGED <<targetDir, dir, mutated, packageManager, pnpmAvailable, onDisk, prefs,
                   templatesToCopy, pending, files, pkg, additions, written, spinner, sigint, resumed, outcome, exitCode>>

DepBatch ==
    /\ Running /\ pc = "depBatch"
    /\ BatchInstall("dep", dependencies, "depFallback", AfterDependencies)
    /\ UNCHANGED <<targetDir, dir, mutated, packageManager, pnpmAvailable, onDisk, prefs,
                   templatesToCopy, pending, files, pkg, additions, written, tried, spinner, sigint, resumed, outcome, exitCode>>

DepFallback ==
    /\ Running /\ pc = "depFallback"
    /\ EachInstall("dep", dependencies, AfterDependencies)
    /\ UNCHANGED <<targetDir, dir, mutated, packageManager, pnpmAvailable, onDisk, prefs,
                   templatesToCopy, pending, files, pkg, additions, written, spinner, sigint, resumed, outcome, exitCode>>

\* GitInit without the try of index.js:445: a failure of git init reaches the
\* catch of the pipeline
GitInitUncaught ==
    /\ Running /\ pc = "gitInit"
    /\ \E ok \in BOOLEAN :
          /\ Exec("git", "init", <<>>, ok)
          /\ IF ok
             THEN /\ files' = LET repo == WriteFile(files, ".git", File("init")) IN
                              IF ".gitignore" \in DOMAIN files
                              THEN repo
                              ELSE WriteFile(repo, ".gitignore", File("defaultGitignore"))
                  /\ pc' = AfterGitInit
                  /\ UNCHANGED <<spinner, outcome, exitCode>>
             ELSE /\ Fatal
                  /\ UNCHANGED files
    /\ UNCHANGED <<targetDir, dir, mutated, packageManager, pnpmAvailable, onDisk, prefs,
                   templatesToCopy, pending, pkg, additions, written, idx, tried, sigint,
                   resumed, warnings>>

\* index.js:443-474  git init returns; .gitignore is written if there is none
GitInit ==
    /\ Running /\ pc = "gitInit"
    /\ \E ok \in BOOLEAN :
          /\ Exec("git", "init", <<>>, ok)
          /\ IF ok
             THEN /\ files' = LET repo == WriteFile(files, ".git", File("init")) IN
                              IF ".gitignore" \in DOMAIN files
                              THEN repo
                              ELSE WriteFile(repo, ".gitignore", File("defaultGitignore"))
                  /\ UNCHANGED warnings
             ELSE /\ warnings' = warnings \cup {"git init"}
                  /\ UNCHANGED files
    /\ pc' = AfterGitInit
    /\ UNCHANGED <<targetDir, dir, mutated, packageManager, pnpmAvailable, onDisk, prefs,
                   templatesToCopy, pending, pkg, additions, written, idx, tried, spinner, sigint, resumed, outcome, exitCode>>

\* HuskyCommand with each command in a try of its own: a failure is a warning
\* and the block goes on with its next step
HuskyCommandGoOn ==
    /\ Running /\ pc \in {"huskyForce", "huskyInstall"}
    /\ \E ok \in BOOLEAN :
          LET bin == IF pc = "huskyForce" THEN packageManager
                     ELSE IF packageManager = "npm" THEN "npx" ELSE "pnpm"
          IN
          /\ ok => CanSucceed(bin)
          /\ IF pc = "huskyForce"
             THEN Exec(bin, AddOp, <<"husky@latest", "lint-staged@latest">>, ok)
             ELSE Exec(bin, "husky install", <<>>, ok)
          /\ warnings' = IF ok THEN warnings ELSE warnings \cup {"husky"}
          /\ pc' = IF pc = "huskyForce" THEN "huskyInstall" ELSE "huskyPrepare"
    /\ UNCHANGED <<targetDir, dir, mutated, packageManager, pnpmAvailable, onDisk, prefs, pipeVars,
                   spinner, sigint, resumed, outcome, exitCode>>

\* index.js:478-493, 510-513  a command of the Husky block returns: the forced
\* install of husky and lint-staged if the batch did not hold them, then
\* 'husky install'; a failure leaves the block with a warning
HuskyCommand ==
    /\ Running /\ pc \in {"huskyForce", "huskyInstall"}
    /\ \E ok \in BOOLEAN :
          LET bin == IF pc = "huskyForce" THEN packageManager
                     ELSE IF packageManager = "npm" THEN "npx" ELSE "pnpm"
          IN
          /\ ok => CanSucceed(bin)
          /\ IF pc = "huskyForce"
             THEN Exec(bin, AddOp, <<"husky@latest", "lint-staged@latest">>, ok)
             ELSE Exec(bin, "husky install", <<>>, ok)
          /\ IF ok
             THEN /\ pc' = IF pc = "huskyForce" THEN "huskyInstall" ELSE "huskyPrepare"
                  /\ UNCHANGED warnings
             ELSE /\ warnings' = warnings \cup {"husky"}
                  /\ pc' = AfterHusky
    /\ UNCHANGED <<targetDir, dir, mutated, packageManager, pnpmAvailable, onDisk, prefs, pipeVars,
                   spinner, sigint, resumed, outcome, exitCode>>

\* HookContent without the choice by package manager of index.js:503
HookContentNpx == "npx lint-staged"

\* index.js:503  the text of the hook
HookContent == IF packageManager = "npm" THEN "npx lint-staged" ELSE "pnpm exec lint-staged"

\* index.js:495-513  the prepare script is written to the manifest, then the
\* hook file; "json" is a failure of the manifest read or write, "hook" one
\* of the hook write
HuskyPrepare ==
    /\ Running /\ pc = "huskyPrepare"
    /\ \E result \in {"ok", "json", "hook"} :
          /\ pkg' = IF result = "json" \/ pkg = NoPkg THEN pkg
                    ELSE [pkg EXCEPT !.scripts =
                            Spread(pkg.scripts, [k \in {"prepare"} |-> HuskyInstallCmd])]
          /\ files' = IF result = "ok"
                      THEN WriteFile(files, ".husky/pre-commit",
                                     [content |-> HookContent, mode |-> "0755"])
                      ELSE files
          /\ warnings' = IF result = "ok" THEN warnings ELSE warnings \cup {"husky"}
    /\ pc' = AfterHusky
    /\ UNCHANGED <<targetDir, dir, mutated, packageManager, pnpmAvailable, onDisk, prefs,
                   templatesToCopy, pending, additions, written, idx, tried, spinner, sigint, resumed, lastCmd, requested, outcome, exitCode>>

\* index.js:516-523  git add returns
GitAdd ==
    /\ Running /\ pc = "gitAdd"
    /\ \E ok \in BOOLEAN :
          /\ Exec("git", "add", <<>>, ok)
          /\ warnings' = IF ok THEN warnings ELSE warnings \cup {"commit"}
          /\ pc' = IF ok THEN "gitCommit" ELSE "readme"
    /\ UNCHANGED <<targetDir, dir, mutated, packageManager, pnpmAvailable, onDisk, prefs, pipeVars,
                   spinner, sigint, resumed, outcome, exitCode>>

\* index.js:519-523  git commit returns
GitCommit ==
    /\ Running /\ pc = "gitCommit"
    /\ \E ok \in BOOLEAN :
          /\ Exec("git", "commit", <<>>, ok)
          /\ warnings' = IF ok THEN warnings ELSE warnings \cup {"commit"}
          /\ files' = IF ok THEN WriteFile(files, ".git", File("commit")) ELSE files
    /\ pc' = "readme"
    /\ UNCHANGED <<targetDir, dir, mutated, packageManager, pnpmAvailable, onDisk, prefs,
                   templatesToCopy, pending, pkg, additions, written, idx, tried, spinner, sigint, resumed, outcome, exitCode>>

\* index.js:1294-1316  the provenance file addAppBoosterSignature writes
AddAppBoosterSignature(fs, userPreferences) ==
    WriteFile(fs, ".appbooster",
              File(IF userPreferences.useTypeScript THEN "typescript" ELSE "javascript"))

\* ------------------------------------------------------------------ README
\* README text is a sequence of pieces: a piece is a run of characters no
\* substitution splits. NL is the newline character; BSN is the two
\* characters backslash and n, which is what \\n denotes in the regular
\* expression literals and template literals of index.js:1234-1287. The
\* emoji of the source strings are left out of the pieces.
NL == "\n"
BSN == "\\n"
Dash == "- "
\* the code fence of three backquotes
Fence == "~~~"
TitlePlaceholder == "# Project Name"
BootstrapPlaceholder == "This project was bootstrapped with"
FeaturesHeading == "## Features"
StructureHeading == "## Project Structure"
TypeScriptBadge == "[![TypeScript](https://img.shields.io/badge/TypeScript-Ready-blue)]"
JestBadge == "[![Jest](https://img.shields.io/badge/Jest-Tested-green)]"
HuskyBadge == "[![Husky](https://img.shields.io/badge/Husky-Enabled-yellow)]"
CiBadge == "[![CI/CD](https://img.shields.io/badge/CI/CD-GitHub_Actions-white)]"

\* index.js:1183-1232  featuresList
FeaturesList(p) ==
    (IF p.useTypeScript THEN <<"TypeScript-enabled build setup">>
                        ELSE <<"JavaScript-based build setup">>)
    \o (IF p.setupJest THEN <<"Jest testing environment">> ELSE <<>>)
    \o (IF p.enableLinting THEN <<"ESLint and Prettier for code quality">> ELSE <<>>)
    \o (IF p.setupHusky THEN <<"Git hooks with Husky">> ELSE <<>>)
    \o (IF p.setupGithubActions THEN <<"CI/CD GitHub workflows">> ELSE <<>>)
    \o (IF p.setupSnyk THEN <<"Snyk security scanning">> ELSE <<>>)
    \o (IF p.deploymentPlatform # "none"
        THEN <<"Optimized for deployment on " \o p.deploymentPlatform>> ELSE <<>>)

\* templates/common/README.md: the placeholder bullets of the skeleton
SkeletonBullets ==
    <<"TypeScript-enabled build setup", "Jest testing environment",
      "ESLint and Prettier for code quality", "Git hooks with Husky",
      "CI/CD GitHub workflows">>

RECURSIVE Lines(_, _)
\* the bullets as lines, each ended by the separator sep
Lines(bullets, sep) ==
    IF bullets = <<>> THEN <<>>
    ELSE <<Dash, Head(bullets), sep>> \o Lines(Tail(bullets), sep)

\* templates/common/README.md as a file of lines (sep = NL), and as it would
\* be were its blocks joined by the character pair the regular expressions
\* spell out (sep = BSN)
Skeleton(sep) ==
    <<TitlePlaceholder, NL, TypeScriptBadge, NL, JestBadge, NL, HuskyBadge, NL, CiBadge, NL,
      BootstrapPlaceholder, " create-app-booster.", NL,
      FeaturesHeading, sep, sep>>
    \o Lines(SkeletonBullets, sep)
    \o <<StructureHeading, sep, sep, Fence, sep, "s", Fence, NL>>

ReadmeSkeletons == {Skeleton(NL), Skeleton(BSN)}

\* String.prototype.replace(string, string): the first occurrence of the
\* piece is replaced, a text without it is returned as it is
ReplacePiece(text, piece, replacement) ==
    IF \E i \in 1..Len(text) : text[i] = piece
    THEN LET i == CHOOSE k \in 1..Len(text) :
                     text[k] = piece /\ \A j \in 1..(k - 1) : text[j] # piece
         IN  SubSeq(text, 1, i - 1) \o replacement \o SubSeq(text, i + 1, Len(text))
    ELSE text

\* the piece at position i, or the empty string past the end of the text
At(text, i) == IF i \in 1..Len(text) THEN text[i] ELSE ""

\* index.js:1234  (- .*$\\n): one repetition of the group starting at a.
\* '- ', then .* over pieces up to m that hold no newline, then $, which
\* without the m flag holds at the end of the text only, then backslash
\* and n. The result is the set of positions right after the repetition.
FeaturesGroup(text, a) ==
    {m + 1 : m \in {k \in a..Len(text) :
                       /\ At(text, a) = Dash
                       /\ \A j \in (a + 1)..k : text[j] # NL
                       /\ k = Len(text)
                       /\ At(text, k + 1) = BSN}}

RECURSIVE FeaturesGroups(_, _, _)
\* the positions right after one or more repetitions of the group, at most
\* n of them, starting at a
FeaturesGroups(text, a, n) ==
    IF n = 0 THEN {}
    ELSE LET once == FeaturesGroup(text, a)
         IN  once \cup UNION {FeaturesGroups(text, e, n - 1) : e \in once}

\* index.js:1234  featuresRegex: the matches <<first, last>> of
\* /## Features\\n\\n(- .*$\\n)+/ in the text
FeaturesRegexMatches(text) ==
    UNION {{<<i, e - 1>> : e \in FeaturesGroups(text, i + 3, Len(text))} :
              i \in {k \in 1..Len(text) : /\ text[k] = FeaturesHeading
                                          /\ At(text, k + 1) = BSN
                                          /\ At(text, k + 2) = BSN}}

\* index.js:1235  featuresReplacement
FeaturesReplacement(featuresList) ==
    <<FeaturesHeading, BSN, BSN>> \o Lines(featuresList, BSN)

\* index.js:1286  structureRegex: the matches of
\* /## Project Structure\\n\\n~~~\\n[\\s\\S]*?~~~/; the class [\\s\\S]
\* holds the characters backslash, s and S, and *? stops at the first fence
StructureRegexMatches(text) ==
    UNION {{<<i, e>> : e \in {k \in (i + 5)..Len(text) :
                                /\ text[k] = Fence
                                /\ \A j \in (i + 5)..(k - 1) : text[j] \in {"\\", "s", "S"}}} :
              i \in {k \in 1..Len(text) : /\ text[k] = StructureHeading
                                          /\ At(text, k + 1) = BSN /\ At(text, k + 2) = BSN
                                          /\ At(text, k + 3) = Fence /\ At(text, k + 4) = BSN}}

\* index.js:1238-1284  structureContent
StructureContent(p) ==
    <<BSN, ".", NL, "node_modules/", NL>>
    \o (IF p.projectType = "nextjs" THEN <<"pages/", NL, "public/", NL>>
                                    ELSE <<"public/", NL, "src/", NL>>)
    \o (IF p.enableLinting THEN <<".eslintrc.js", NL, ".prettierrc", NL>> ELSE <<>>)
    \o (IF p.setupJest THEN <<"jest.config.js", NL>> ELSE <<>>)
    \o (IF p.setupHusky THEN <<".husky/", NL>> ELSE <<>>)
    \o (IF p.setupGithubActions THEN <<".github/", NL>> ELSE <<>>)
    \o <<".gitignore", NL, "package.json", NL, "README.md", NL>>
    \o (IF p.useTypeScript THEN <<"tsconfig.json", NL>> ELSE <<"vite.config.js", NL>>)

\* index.js:1287  structureReplacement
StructureReplacement(p) ==
    <<StructureHeading, BSN, BSN, "\\", Fence>> \o StructureContent(p) \o <<"\\", Fence>>

\* String.prototype.replace(regex, string) without the g flag: the leftmost
\* match is replaced, a text without a match is returned as it is
ReplaceMatch(text, matches, replacement) ==
    IF matches = {} THEN text
    ELSE LET first == CHOOSE m \in matches :
                         \A o \in matches : m[1] < o[1] \/ (m[1] = o[1] /\ m[2] <= o[2])
         IN  SubSeq(text, 1, first[1] - 1) \o replacement
             \o SubSeq(text, first[2] + 1, Len(text))

\* index.js:1166-1232  the title, the bootstrap sentence and the badges
ReadmeHead(text, projectName, p) ==
    LET titled == ReplacePiece(text, TitlePlaceholder, <<"# ">> \o projectName)
        boot   == ReplacePiece(titled, BootstrapPlaceholder,
                     <<IF p.projectType = "vite"
                       THEN "This Vite React project was bootstrapped with"
                       ELSE "This Next.js project was bootstrapped with">>)
        ts     == IF p.useTypeScript THEN boot ELSE ReplacePiece(boot, TypeScriptBadge, <<>>)
        jest   == IF p.setupJest THEN ts ELSE ReplacePiece(ts, JestBadge, <<>>)
        husky  == IF p.setupHusky THEN jest ELSE ReplacePiece(jest, HuskyBadge, <<>>)
    IN  IF p.setupGithubActions THEN husky ELSE ReplacePiece(husky, CiBadge, <<>>)

\* index.js:1167-1288  the text setupReadme writes
ReadmeContent(skeleton, projectName, p) ==
    LET head     == ReadmeHead(skeleton, projectName, p)
        features == ReplaceMatch(head, FeaturesRegexMatches(head),
                                 FeaturesReplacement(FeaturesList(p)))
    IN  ReplaceMatch(features, StructureRegexMatches(features), StructureReplacement(p))

\* index.js:83  projectName
ProjectName == IF targetDir = CurrentDirName THEN <<"cwd">> ELSE targetDir

\* index.js:525-556, 1162-1292  setupReadme returns; the success report
SetupReadme ==
    /\ Running /\ pc = "readme"
    /\ \E ok \in BOOLEAN, skeleton \in ReadmeSkeletons :
          LET skeletonOnDisk == "common/README.md" \in onDisk IN
          /\ ~skeletonOnDisk => ok
          /\ IF ok
             THEN /\ files' = IF skeletonOnDisk
                              THEN WriteFile(files, "README.md",
                                             File(ReadmeContent(skeleton, ProjectName, prefs)))
                              ELSE files
                  /\ spinner' = "succeed"
                  /\ Return("success")
             ELSE /\ Fatal
                  /\ UNCHANGED files
    /\ UNCHANGED <<targetDir, dir, mutated, packageManager, pnpmAvailable, onDisk, prefs,
                   templatesToCopy, pending, pkg, additions, written, idx, tried, sigint, resumed, warnings, lastCmd, requested>>

\* ------------------------------------------------------------------ SIGINT
\* global.activeSpinner is read by the handler (index.js:25, 45) and is
\* assigned nowhere in the program: mainSpinner is a local of the action
ActiveSpinnerSet == FALSE

\* index.js:22-37  the signal arrives; the handler opens its prompt
Sigint ==
    /\ Alive /\ sigint = "idle"
    /\ pc # "start"
    /\ sigint' = "asking"
    /\ spinner' = IF ActiveSpinnerSet /\ spinner = "spinning" THEN "stopped" ELSE spinner
    /\ UNCHANGED <<pipeVars, pc, targetDir, dir, mutated, packageManager, pnpmAvailable, onDisk, prefs,
                   resumed, warnings, lastCmd, requested, outcome, exitCode>>

\* SigintAnswer with the confirmed branch printing its goodbye and returning
\* without the process.exit(0) of index.js:41
SigintAnswerNoExit ==
    /\ Alive /\ sigint = "asking"
    /\ \E confirmExit \in BOOLEAN :
          IF confirmExit
          THEN /\ sigint' = "exited"
               /\ UNCHANGED <<spinner, resumed, outcome, exitCode>>
          ELSE /\ sigint' = "idle"
               /\ resumed' = TRUE
               /\ spinner' = IF ActiveSpinnerSet /\ spinner = "stopped" THEN "spinning" ELSE spinner
               /\ exitCode' = IF pc = "returned" /\ pending = {} THEN 0 ELSE exitCode
               /\ UNCHANGED outcome
    /\ UNCHANGED <<pipeVars, pc, targetDir, dir, mutated, packageManager, pnpmAvailable, onDisk, prefs,
                   warnings, lastCmd, requested>>

\* index.js:39-53  the answer to 'Are you sure you want to exit?'
SigintAnswer ==
    /\ Alive /\ sigint = "asking"
    /\ \E confirmExit \in BOOLEAN :
          IF confirmExit
          THEN /\ exitCode' = 0
               /\ outcome' = IF outcome = "running" THEN "aborted" ELSE outcome
               /\ sigint' = "exited"
               /\ UNCHANGED <<spinner, resumed>>
          ELSE /\ sigint' = "idle"
               /\ resumed' = TRUE
               /\ spinner' = IF ActiveSpinnerSet /\ spinner = "stopped" THEN "spinning" ELSE spinner
               /\ exitCode' = IF pc = "returned" /\ pending = {} THEN 0 ELSE exitCode
               /\ UNCHANGED outcome
    /\ UNCHANGED <<pipeVars, pc, targetDir, dir, mutated, packageManager, pnpmAvailable, onDisk, prefs,
                   warnings, lastCmd, requested>>

Next ==
    \/ Start \/ AskName \/ AskOverwrite \/ AskProjectType \/ AskPackageManager
    \/ ProbePnpm \/ AskLanguage \/ ConfirmLanguage \/ AskSetup \/ AskDeployment
    \/ ConfirmSetup
    \/ CreateViteProject \/ CreateNextProject \/ CreateNextInstall \/ CopyLicense
    \/ SetupServiceWorkerVite \/ SetupServiceWorkerNextInstall
    \/ SetupServiceWorkerNextFiles \/ StartCopy \/ CopyFile \/ UpdatePackageJsonStep
    \/ Install \/ DevBatch \/ DevFallback \/ DepBatch \/ DepFallback \/ GitInit
    \/ HuskyCommand \/ HuskyPrepare \/ GitAdd \/ GitCommit \/ SetupReadme
    \/ Sigint \/ SigintAnswer

Spec == Init /\ [][Next]_vars

\* ------------------------------------------------------------- properties
\* C1: when pnpm is requested and its version probe has failed, the resolved
\* manager is npm, the warning has been printed, and the only pnpm command
\* the run has ever issued is the probe itself.
C1_NoPnpmAfterFailedProbe ==
    (packageManager = "pnpm" /\ pnpmAvailable = "no") =>
        /\ prefs.packageManager = "npm"
        /\ "pnpm not found" \in warnings
        /\ lastCmd.bin = "pnpm" => lastCmd.op = "--version"

\* the specifiers the fallback loop of a batch has passed to an install of
\* their own when it stands at position i
Attempted(specs, i) == {specs[j] : j \in 1..(i - 1)}

\* C2: a failed batch has carried every specifier of its list, and once the
\* fallback loop of a failed batch is over every specifier of the list has
\* been passed to an individual install; inside the loop exactly the ones
\* before the loop's position have been.
C2_EverySpecifierAttempted ==
    /\ pc = "devFallback" =>
          /\ "dev batch" \in warnings
          /\ tried.dev = Attempted(devDependencies, idx)
          /\ idx = 1 => lastCmd.specs = devDependencies /\ ~lastCmd.ok
    /\ pc = "depFallback" =>
          /\ "dep batch" \in warnings
          /\ tried.dep = Attempted(dependencies, idx)
          /\ idx = 1 => lastCmd.specs = dependencies /\ ~lastCmd.ok
    /\ ("dev batch" \in warnings /\ pc # "devFallback") =>
          tried.dev = Range(devDependencies)
    /\ ("dep batch" \in warnings /\ pc # "depFallback") =>
          tried.dep = Range(dependencies)

\* both batches have failed, both loops have run, and the run has succeeded
C2_Witness ==
    /\ outcome = "success"
    /\ {"dev batch", "dep batch"} \subseteq warnings
    /\ Len(devDependencies) > 1
    /\ tried.dev = Range(devDependencies)
    /\ tried.dep = Range(dependencies)

\* C3: in the fallback loop a specifier whose install fails is recorded as
\* attempted and the loop goes on to the next specifier, or past the last one
\* to the stage after the batch; the run is neither stopped nor failed.
C3_SpecifierFailureNeverAborts ==
    [][(pc \in {"devFallback", "depFallback"} /\ idx' # idx /\ ~lastCmd'.ok) =>
          LET kind == IF pc = "devFallback" THEN "dev" ELSE "dep"
              specs == IF pc = "devFallback" THEN devDependencies ELSE dependencies
              after == IF pc = "devFallback" THEN AfterDevDependencies ELSE AfterDependencies
          IN  /\ outcome' = "running" /\ exitCode' = exitCode /\ spinner' = spinner
              /\ tried' = [tried EXCEPT ![kind] = @ \cup {specs[idx]}]
              /\ IF idx < Len(specs)
                 THEN pc' = pc /\ idx' = idx + 1
                 ELSE pc' = after
              /\ (kind \o " specifier") \in warnings']_vars

\* specifiers of both loops have failed, and the run has gone through git,
\* Husky and the commit to the success report
C3_Witness ==
    /\ outcome = "success"
    /\ {"dev specifier", "dep specifier"} \subseteq warnings
    /\ tried.dev = Range(devDependencies)
    /\ {".git", ".husky/pre-commit", "README.md"} \subseteq DOMAIN files
    /\ files[".git"].content = "commit"

\* C4: a process that has ended after the catch of the pipeline reported a
\* failure has a non-zero exit status, and one that has ended after the
\* success report has status zero.
C4_FatalExitsNonZero ==
    (~Alive /\ sigint # "exited") =>
        /\ outcome = "failed" => exitCode # 0
        /\ outcome = "success" => exitCode = 0

\* C5: a run that has ended at a declined confirmation has neither created
\* nor emptied the target directory and has written no file.
C5_CancelBeforeMutation ==
    outcome = "cancelled" => ~mutated /\ dir # "empty" /\ files = NoFiles

\* what the pipeline has done to the target directory and to the outside
effects == <<pipeVars, pc, lastCmd, requested, dir, mutated>>

\* C6: the confirmed answer to the exit question ends the process at once,
\* an ended process performs nothing more, and the declined answer leaves the
\* run where it was, alive if it had not returned.
C6_InterruptConfirmedOrDeclined ==
    [][/\ (sigint = "asking" /\ sigint' = "exited") =>
             (exitCode' # -1 /\ UNCHANGED effects)
       /\ exitCode # -1 => UNCHANGED <<effects, outcome, exitCode>>
       /\ (sigint = "asking" /\ sigint' = "idle") =>
             /\ UNCHANGED <<effects, outcome>>
             /\ pc # "returned" => exitCode' = -1]_vars

\* a run whose interrupt was declined has gone on to the success report
C6_Witness ==
    /\ resumed
    /\ outcome = "success"
    /\ exitCode = 0
    /\ "README.md" \in DOMAIN files

\* C7: when the interrupt arrives the progress indicator is stopped, while
\* the exit question is open the pipeline (entered when the indicator is
\* created) makes no transition, writes no file and runs no command, and a
\* stopped indicator is restarted on resume.
C7_PausedWhileAsking ==
    [][/\ (sigint = "idle" /\ sigint' = "asking") => spinner' # "spinning"
       /\ (sigint = "asking" /\ sigint' = "asking" /\ spinner # "none") =>
             UNCHANGED <<pc, pending, files, pkg, lastCmd, requested>>
       /\ (sigint = "asking" /\ sigint' = "idle" /\ spinner = "stopped") =>
             spinner' = "spinning"]_vars

\* the last bundle of the plan, among those on disk, that carries the path
LastBundle(path) ==
    LET carriers == {i \in 1..Len(templatesToCopy) :
                        /\ templatesToCopy[i] \in onDisk
                        /\ TemplatePath(templatesToCopy[i]) = path}
    IN  templatesToCopy[CHOOSE i \in carriers : \A j \in carriers : j <= i]

\* C8: when the copy step is over, every path a bundle of the plan carries
\* holds what the last bundle of the plan carrying that path copies to it.
C8_LastBundleWins ==
    (pc = "updatePackageJson" /\ pending = {}) =>
        \A i \in 1..Len(templatesToCopy) :
           LET bundle == templatesToCopy[i] IN
           bundle \in onDisk =>
              /\ TemplatePath(bundle) \in DOMAIN files
              /\ files[TemplatePath(bundle)].content =
                    CopiedContent(LastBundle(TemplatePath(bundle)), prefs, onDisk)

\* ----------------------------------------- updatePackageJson on its own
\* number of times the merge is applied to one manifest
MaxMerges == 2

\* script commands of the manifests the merge is explored with: the Husky
\* sentinel, a command with single quotes, the empty command
ScriptInputs == {HuskyInstallCmd, <<"prettier --write ", SQ, "src", SQ>>, <<>>}

DepInputs == {NoDeps, [k \in {"next-pwa"} |-> "^5.6.0"]}
DevDepInputs == {NoDeps, [k \in {"vite"} |-> "^5.1.0"]}

BaseManifests ==
    {[scripts |-> s, dependencies |-> d, devDependencies |-> dv, lintStaged |-> "none"] :
        s \in UNION {[keys -> ScriptInputs] : keys \in SUBSET {"prepare", "format", "lint"}},
        d \in {NoDeps, [k \in {"react"} |-> "^18.2.0"]},
        dv \in DevDepInputs}

AdditionsInputs ==
    {NoAdditions} \cup
    {[scripts |-> s, dependencies |-> d, devDependencies |-> dv] :
        s \in UNION {[keys -> ScriptInputs] : keys \in SUBSET {"prepare", "format", "test"}},
        d \in DepInputs,
        dv \in DevDepInputs}

InitMerge ==
    /\ pc = "merge"
    /\ pkg \in BaseManifests
    /\ additions \in AdditionsInputs
    /\ \E linting \in BOOLEAN, jest \in BOOLEAN, husky \in BOOLEAN :
          prefs = [InitPrefs EXCEPT !.enableLinting = linting, !.setupJest = jest,
                                    !.setupHusky = husky]
    /\ written = <<>>
    /\ targetDir = <<"a">>
    /\ dir = "empty"
    /\ mutated = TRUE
    /\ packageManager = "npm"
    /\ pnpmAvailable = "unknown"
    /\ onDisk = TemplatesOnDisk
    /\ templatesToCopy = <<>>
    /\ pending = {}
    /\ files = NoFiles
    /\ idx = 0
    /\ tried = [dev |-> {}, dep |-> {}]
    /\ spinner = "spinning"
    /\ sigint = "idle"
    /\ resumed = FALSE
    /\ warnings = {}
    /\ lastCmd = NoCmd
    /\ requested = {}
    /\ outcome = "running"
    /\ exitCode = -1

\* index.js:1075-1160  updatePackageJson is applied to the manifest on disk
Merge ==
    /\ pc = "merge"
    /\ Len(written) < MaxMerges
    /\ pkg' = UpdatePackageJson(pkg, prefs, additions)
    /\ written' = Append(written, pkg')
    /\ UNCHANGED <<pc, targetDir, dir, mutated, packageManager, pnpmAvailable, onDisk, prefs,
                   templatesToCopy, pending, files, additions, idx, tried, spinner,
                   sigint, resumed, warnings, lastCmd, requested, outcome, exitCode>>

NextMerge == Merge

SpecMerge == InitMerge /\ [][NextMerge]_vars

\* C9: the manifest written by a second application of updatePackageJson has
\* the dependencies, devDependencies and lint-staged entry of the manifest
\* written by the first, the same script keys other than prepare, and the same
\* command under each of them that holds no single quote.
C9_MergeIdempotent ==
    Len(written) >= 2 =>
        LET once == written[1]
            twice == written[2]
        IN  /\ twice.dependencies = once.dependencies
            /\ twice.devDependencies = once.devDependencies
            /\ twice.lintStaged = once.lintStaged
            /\ DOMAIN twice.scripts \ {"prepare"} = DOMAIN once.scripts \ {"prepare"}
            /\ \A k \in DOMAIN once.scripts \ {"prepare"} :
                  ~IncludesSQ(once.scripts[k]) => twice.scripts[k] = once.scripts[k]

\* the merge has been applied twice with linting and Husky selected and a
\* descriptor that adds a dependency and a script
C9_Witness ==
    /\ pc = "merge"
    /\ Len(written) = 2
    /\ prefs.enableLinting /\ prefs.setupHusky
    /\ additions # NoAdditions
    /\ "next-pwa" \in DOMAIN written[2].dependencies
    /\ "format" \in DOMAIN additions.scripts
    /\ written[2].scripts["lint"] = LintCmd
    /\ written[2].lintStaged = LintStagedConfig

\* C10: a run that has reached the success report has written the provenance
\* file, whose language is typescript exactly when TypeScript was selected.
C10_ProvenanceWritten ==
    outcome = "success" =>
        /\ ".appbooster" \in DOMAIN files
        /\ files[".appbooster"] = AddAppBoosterSignature(files, prefs)[".appbooster"]

\* C11: every manifest the merge writes has the script keys lint and lint:fix
\* when linting is selected and test, test:watch and test:coverage when
\* testing is selected, whatever the manifest it read and the descriptor hold.
C11_MergedScriptKeys ==
    \A i \in 1..Len(written) :
        /\ prefs.enableLinting => {"lint", "lint:fix"} \subseteq DOMAIN written[i].scripts
        /\ prefs.setupJest =>
              {"test", "test:watch", "test:coverage"} \subseteq DOMAIN written[i].scripts

\* linting and testing are selected, the manifest read had a lint script of
\* its own and the descriptor declares a test script of its own
C11_Witness ==
    /\ pc = "merge"
    /\ Len(written) = 1
    /\ prefs.enableLinting /\ prefs.setupJest
    /\ additions # NoAdditions
    /\ "test" \in DOMAIN additions.scripts
    /\ written[1].scripts["test"] = additions.scripts["test"]
    /\ written[1].scripts["test"] # <<"jest">>
    /\ written[1].scripts["test:watch"] = <<"jest --watch">>
    /\ written[1].scripts["lint"] = LintCmd

\* C12: with git hooks selected the devDependency list holds the Husky and
\* lint-staged specifiers, and a successful run with git hooks in which no
\* command or write failed (no warning was printed) has left .husky/pre-commit
\* with mode 0755, running lint-staged through 'pnpm exec' for pnpm and
\* through npx for npm.
C12_HuskyBatchAndHook ==
    /\ prefs.setupHusky =>
          {"husky@latest", "lint-staged@latest"} \subseteq Range(devDependencies)
    /\ (outcome = "success" /\ prefs.setupHusky /\ warnings = {}) =>
          /\ ".husky/pre-commit" \in DOMAIN files
          /\ files[".husky/pre-commit"].mode = "0755"
          /\ files[".husky/pre-commit"].content =
                (IF packageManager = "pnpm" THEN "pnpm exec lint-staged" ELSE "npx lint-staged")

\* Next.js, pnpm, JavaScript, git hooks alone: the run has succeeded without a
\* warning and the hook is there
C12_Witness ==
    /\ outcome = "success" /\ warnings = {}
    /\ prefs.projectType = "nextjs" /\ packageManager = "pnpm" /\ ~prefs.useTypeScript
    /\ prefs.setupHusky /\ ~prefs.enableLinting /\ ~prefs.setupJest /\ ~prefs.initGit
    /\ devDependencies = <<"husky@latest", "lint-staged@latest">>
    /\ files[".husky/pre-commit"] = [content |-> "pnpm exec lint-staged", mode |-> "0755"]

\* ------------------------------------------------- the bundle plan on its own
\* the bundles the plan includes only if fs.existsSync finds them
\* (index.js:291-294, 302-305)
ProbedBundles ==
    {t \o "/jest" : t \in ProjectTypes}
        \cup {t \o "/deployment/" \o d : t \in ProjectTypes, d \in DeploymentPlatforms \ {"none"}}

\* the templates directory with any of the probed bundles there or not
PlanDisks == {(TemplatesOnDisk \ ProbedBundles) \cup there : there \in SUBSET ProbedBundles}

InitPlan ==
    /\ pc = "plan"
    /\ onDisk \in PlanDisks
    /\ \E projectType \in ProjectTypes, languageOption \in LanguageOptions,
          selectedSetup \in SUBSET SetupChoices, deploymentPlatform \in DeploymentPlatforms :
          prefs = [InitPrefs EXCEPT
                      !.projectType = projectType,
                      !.languageOption = languageOption,
                      !.useTypeScript = UseTypeScript(languageOption),
                      !.useServiceWorker = UseServiceWorker(languageOption),
                      !.enableLinting = "linting" \in selectedSetup,
                      !.setupJest = "jest" \in selectedSetup,
                      !.setupGithubActions = "github" \in selectedSetup,
                      !.setupSnyk = "snyk" \in selectedSetup,
                      !.setupHusky = "husky" \in selectedSetup,
                      !.initGit = "git" \in selectedSetup,
                      !.deploymentPlatform = deploymentPlatform]
    /\ templatesToCopy = <<>>
    /\ targetDir = <<"a">>
    /\ dir = "empty"
    /\ mutated = TRUE
    /\ packageManager = "npm"
    /\ pnpmAvailable = "unknown"
    /\ pending = {}
    /\ files = NoFiles
    /\ pkg = NoPkg
    /\ additions = NoAdditions
    /\ written = <<>>
    /\ idx = 0
    /\ tried = [dev |-> {}, dep |-> {}]
    /\ spinner = "spinning"
    /\ sigint = "idle"
    /\ resumed = FALSE
    /\ warnings = {}
    /\ lastCmd = NoCmd
    /\ requested = {}
    /\ outcome = "running"
    /\ exitCode = -1

\* index.js:266-306  the plan is built
Plan ==
    /\ pc = "plan"
    /\ templatesToCopy' = TemplatesToCopy(prefs, onDisk)
    /\ pc' = "planned"
    /\ UNCHANGED <<targetDir, dir, mutated, packageManager, pnpmAvailable, onDisk, prefs,
                   pending, files, pkg, additions, written, idx, tried, spinner, sigint,
                   resumed, warnings, lastCmd, requested, outcome, exitCode>>

NextPlan == Plan

SpecPlan == InitPlan /\ [][NextPlan]_vars

DeploymentBundles ==
    {t \o "/deployment/" \o d :
        t \in ProjectTypes \cup {"common"}, d \in DeploymentPlatforms \ {"none"}}

Occurrences(seq, x) == Cardinality({i \in 1..Len(seq) : seq[i] = x})

\* C13: with a deployment platform selected the plan holds the common bundle
\* of the platform exactly once, the bundle of the project type for the
\* platform exactly when it is on disk, and no other deployment bundle; with
\* none selected it holds no deployment bundle.
C13_DeploymentBundles ==
    pc = "planned" =>
        LET d == prefs.deploymentPlatform
            common == "common/deployment/" \o d
            own == prefs.projectType \o "/deployment/" \o d
        IN  IF d = "none"
            THEN Range(templatesToCopy) \cap DeploymentBundles = {}
            ELSE /\ Occurrences(templatesToCopy, common) = 1
                 /\ own \in Range(templatesToCopy) <=> own \in onDisk
                 /\ Occurrences(templatesToCopy, own) <= 1
                 /\ Range(templatesToCopy) \cap DeploymentBundles \subseteq {common, own}

\* Next.js on netlify with no netlify bundle of its own on disk, while Vite's
\* is there: the plan ends with the common bundle alone
C13_Witness ==
    /\ pc = "planned"
    /\ prefs.projectType = "nextjs" /\ prefs.deploymentPlatform = "netlify"
    /\ "nextjs/deployment/netlify" \notin onDisk
    /\ "vite/deployment/netlify" \in onDisk
    /\ Range(templatesToCopy) \cap DeploymentBundles = {"common/deployment/netlify"}

\* the testing bundles of the project types, and all testing bundles
TypeTestingBundles == {t \o v : t \in ProjectTypes, v \in {"/jest", "/jest-ts"}}
TestingBundles == {"common/jest"} \cup TypeTestingBundles

\* testing and JavaScript are selected and the project type has no plain-JS
\* test bundle on disk
NoJsTestBundle ==
    /\ prefs.setupJest /\ ~prefs.useTypeScript
    /\ (prefs.projectType \o "/jest") \notin onDisk

\* C14 as stated: with testing and JavaScript selected and no plain-JS test
\* bundle of the project type on disk, no testing bundle at all is in the
\* plan or being copied.
C14_NoTestingBundleAtAll ==
    NoJsTestBundle =>
        /\ Range(templatesToCopy) \cap TestingBundles = {}
        /\ pending \cap TestingBundles = {}

\* C14 amended: in that case no testing bundle of a project type is in the
\* plan or being copied, while the plan, once built (with the LICENSE copy),
\* holds the common testing bundle once.
C14_NoTypeTestingBundle ==
    NoJsTestBundle =>
        /\ Range(templatesToCopy) \cap TypeTestingBundles = {}
        /\ pending \cap TypeTestingBundles = {}
        /\ "LICENSE" \in DOMAIN files => Occurrences(templatesToCopy, "common/jest") = 1

\* such a run has reached the success report without a warning
C14_Witness ==
    /\ NoJsTestBundle
    /\ outcome = "success" /\ warnings = {}
    /\ prefs.projectType = "nextjs"
    /\ templatesToCopy = <<"common/jest">>

\* C15: a step of the scaffold that does not succeed (the generator's command
\* fails, or a write or the install of createNextProject does) ends the
\* callback with the failure reported and touches nothing of the pipeline, and
\* after a reported failure with no copy in flight no stage does anything more.
C15_ScaffoldFailureIsFatal ==
    [][/\ (pc \in {"scaffold", "scaffoldInstall"} /\ lastCmd' # lastCmd /\ ~lastCmd'.ok) =>
             outcome' = "failed"
       /\ (pc \in {"scaffold", "scaffoldInstall"} /\ pc' \notin {pc, "scaffoldInstall", "license"}) =>
             /\ outcome' = "failed" /\ pc' = "returned" /\ spinner' = "fail"
             /\ UNCHANGED pipeVars
       /\ (outcome = "failed" /\ pending = {}) =>
             UNCHANGED <<pipeVars, pc, lastCmd, requested, outcome>>]_vars

\* create-vite has failed: the failure is reported, nothing was written and
\* the process has ended
C15_Witness ==
    /\ outcome = "failed" /\ spinner = "fail" /\ ~Alive
    /\ lastCmd.op = "create-vite" /\ ~lastCmd.ok
    /\ files = NoFiles /\ pkg = NoPkg /\ templatesToCopy = <<>> /\ written = <<>>

\* C16: a git command that returns, failed or not, leaves the run running and
\* hands over to the next stage: after git init the Husky block (or the commit,
\* or the README), after git add the commit or, failed, the README, after git
\* commit the README; a failed one has printed its warning.
C16_GitFailureIsWarning ==
    [][(pc \in {"gitInit", "gitAdd", "gitCommit"} /\ pc' # pc) =>
          /\ lastCmd'.bin = "git"
          /\ outcome' = "running" /\ exitCode' = exitCode /\ spinner' = spinner
          /\ pc' = CASE pc = "gitInit" -> AfterGitInit
                     [] pc = "gitAdd" -> (IF lastCmd'.ok THEN "gitCommit" ELSE "readme")
                     [] OTHER -> "readme"
          /\ ~lastCmd'.ok =>
                (IF pc = "gitInit" THEN "git init" ELSE "commit") \in warnings']_vars

\* git init and the commit have both failed, and the run has set up Husky,
\* written the README and reached the success report
C16_Witness ==
    /\ outcome = "success"
    /\ {"git init", "commit"} \subseteq warnings
    /\ ".git" \notin DOMAIN files
    /\ {".husky/pre-commit", "README.md"} \subseteq DOMAIN files

\* the stage of the pipeline a position of the callback belongs to: 0 the
\* prompts, 1 scaffold, 2 template copy (with the LICENSE and the service
\* worker set up before it), 3 manifest merge, 4 manifest install, 5 the
\* devDependencies batch, 6 the dependencies batch, 7 version control with the
\* Husky block, 8 README, 9 returned
StageRank(p) ==
    CASE p \in {"scaffold", "scaffoldInstall"} -> 1
      [] p \in {"license", "serviceWorker", "serviceWorkerFiles", "copy", "copying"} -> 2
      [] p = "updatePackageJson" -> 3
      [] p = "install" -> 4
      [] p \in {"devBatch", "devFallback"} -> 5
      [] p \in {"depBatch", "depFallback"} -> 6
      [] p \in {"gitInit", "huskyForce", "huskyInstall", "huskyPrepare", "gitAdd", "gitCommit"} -> 7
      [] p = "readme" -> 8
      [] p = "returned" -> 9
      [] OTHER -> 0

\* C17: the callback never goes back to an earlier stage, the stages after
\* the template copy run with no copy in flight, the merge writes the manifest
\* only when the scaffold has left one, and outside the scaffold's own install
\* no install command of a package manager is issued before the merge has
\* written the manifest.
C17_StrictStageOrder ==
    [][/\ StageRank(pc') >= StageRank(pc)
       /\ StageRank(pc) \in 3..8 => pending = {}
       /\ written' # written => pkg # NoPkg
       /\ (lastCmd' # lastCmd /\ lastCmd'.op \in {"install", "add"} /\ pc # "scaffoldInstall") =>
             Len(written) > 0]_vars

\* C18: whenever the hook file .husky/pre-commit is in the target, git hooks
\* are selected and the Husky and lint-staged specifiers have been passed to
\* an install command of the package manager.
C18_HuskyRequestedBeforeHook ==
    ".husky/pre-commit" \in DOMAIN files =>
        /\ prefs.setupHusky
        /\ {"husky@latest", "lint-staged@latest"} \subseteq requested

\* git hooks alone are selected (no linting, no testing) and the hook is there
C18_Witness ==
    /\ ".husky/pre-commit" \in DOMAIN files
    /\ prefs.setupHusky /\ ~prefs.enableLinting /\ ~prefs.setupJest
    /\ requested = {"husky@latest", "lint-staged@latest"}

\* the manifest has the prepare script 'husky install'
HasSentinel(manifest) ==
    /\ manifest # NoPkg
    /\ "prepare" \in DOMAIN manifest.scripts
    /\ manifest.scripts["prepare"] = HuskyInstallCmd

\* C19 as stated: no manifest the merge writes has prepare = 'husky install',
\* and when a run has ended, however it ended, the manifest has it only if git
\* hooks were selected.
C19_PrepareOnlyWithHooks ==
    /\ \A i \in 1..Len(written) : ~HasSentinel(written[i])
    /\ (outcome # "running" /\ HasSentinel(pkg)) => prefs.setupHusky

\* C19 amended: no manifest the merge writes has prepare = 'husky install',
\* and from the merge on, to whatever end of the run, the manifest has it only
\* if git hooks were selected.
C19_PrepareOwnedByHooksStage ==
    /\ \A i \in 1..Len(written) : ~HasSentinel(written[i])
    /\ (Len(written) > 0 /\ HasSentinel(pkg)) => prefs.setupHusky

\* the scaffold and the descriptor both declared the sentinel, the merge wrote
\* a manifest without it, and the Husky block of a successful run put it back
C19_Witness ==
    /\ outcome = "success"
    /\ prefs.projectType = "vite" /\ prefs.setupHusky
    /\ additions # NoAdditions /\ HasSentinel(additions)
    /\ Len(written) = 1 /\ "prepare" \notin DOMAIN written[1].scripts
    /\ HasSentinel(pkg)

\* the order in which the plan of a project type and platform lists bundles
PlanOrder(p) ==
    <<"common/github", "common/snyk", "common/linting", p.projectType \o "/linting",
      "common/husky", "common/jest", p.projectType \o "/jest-ts", p.projectType \o "/jest",
      "common/deployment/" \o p.deploymentPlatform,
      p.projectType \o "/deployment/" \o p.deploymentPlatform>>

Position(seq, x) == CHOOSE i \in 1..Len(seq) : seq[i] = x

\* the bundles the selections of a FeatureSet and the probes of the disk call for
PlannedBundles(p, disk) ==
    {b \in Range(PlanOrder(p)) :
        \/ b = "common/github" /\ p.setupGithubActions
        \/ b = "common/snyk" /\ p.setupSnyk
        \/ b \in {"common/linting", p.projectType \o "/linting"} /\ p.enableLinting
        \/ b = "common/husky" /\ p.setupHusky
        \/ b = "common/jest" /\ p.setupJest
        \/ b = p.projectType \o "/jest-ts" /\ p.setupJest /\ p.useTypeScript
        \/ b = p.projectType \o "/jest" /\ p.setupJest /\ ~p.useTypeScript /\ b \in disk
        \/ b = "common/deployment/" \o p.deploymentPlatform /\ p.deploymentPlatform # "none"
        \/ /\ b = p.projectType \o "/deployment/" \o p.deploymentPlatform
           /\ p.deploymentPlatform # "none" /\ b \in disk}

\* the common bundle a bundle of a project type is the variant of
Counterpart(bundle, p) ==
    CASE bundle = p.projectType \o "/linting" -> "common/linting"
      [] bundle \in {p.projectType \o "/jest", p.projectType \o "/jest-ts"} -> "common/jest"
      [] OTHER -> "common/deployment/" \o p.deploymentPlatform

\* C20: the plan is the one list the FeatureSet and the disk determine: it
\* holds exactly the bundles they call for, each once, in the fixed order of
\* PlanOrder, so that every bundle of the project type comes after the common
\* bundle it is the variant of.
C20_PlanDeterministic ==
    pc = "planned" =>
        LET plan == templatesToCopy
            order == PlanOrder(prefs)
        IN  /\ Range(plan) = PlannedBundles(prefs, onDisk)
            /\ \A i, j \in 1..Len(plan) :
                  i < j => Position(order, plan[i]) < Position(order, plan[j])
            /\ \A j \in 1..Len(plan) :
                  plan[j] \notin {"common/github", "common/snyk", "common/linting", "common/husky",
                                  "common/jest", "common/deployment/" \o prefs.deploymentPlatform}
                     => \E i \in 1..(j - 1) : plan[i] = Counterpart(plan[j], prefs)

\* everything is selected for Vite and JavaScript with the optional bundles on
\* disk: the plan lists the nine bundles of a JavaScript project, each variant after its counterpart
C20_Witness ==
    /\ pc = "planned"
    /\ prefs.projectType = "vite" /\ ~prefs.useTypeScript
    /\ prefs.deploymentPlatform = "render"
    /\ templatesToCopy =
          <<"common/github", "common/snyk", "common/linting", "vite/linting", "common/husky",
            "common/jest", "vite/jest", "common/deployment/render", "vite/deployment/render">>

\* the specifiers the testing selection calls for
JestAndTestingLibrary ==
    {"jest@latest", "@testing-library/react@latest", "@testing-library/jest-dom@latest",
     "@testing-library/user-event@latest", "identity-obj-proxy@latest"}

\* C21: when the devDependency batch is about to be installed for a Vite
\* project with testing selected, the batch holds Jest, the testing-library
\* set, the jsdom test environment and the Vite React plugin, and with
\* TypeScript also the Jest type definitions and ts-jest.
C21_ViteTestingBatch ==
    (pc = "devBatch" /\ prefs.projectType = "vite" /\ prefs.setupJest) =>
        /\ JestAndTestingLibrary \subseteq Range(devDependencies)
        /\ "jest-environment-jsdom@latest" \in Range(devDependencies)
        /\ "@vitejs/plugin-react@latest" \in Range(devDependencies)
        /\ prefs.useTypeScript =>
              {"@types/jest@latest", "ts-jest@latest"} \subseteq Range(devDependencies)

\* the features a README lists, in the order of their bullets, each with the
\* selection that enables it
FeatureBullets(p) ==
    <<[on |-> p.useTypeScript, text |-> "TypeScript-enabled build setup"],
      [on |-> ~p.useTypeScript, text |-> "JavaScript-based build setup"],
      [on |-> p.setupJest, text |-> "Jest testing environment"],
      [on |-> p.enableLinting, text |-> "ESLint and Prettier for code quality"],
      [on |-> p.setupHusky, text |-> "Git hooks with Husky"],
      [on |-> p.setupGithubActions, text |-> "CI/CD GitHub workflows"],
      [on |-> p.setupSnyk, text |-> "Snyk security scanning"],
      [on |-> p.deploymentPlatform # "none",
       text |-> "Optimized for deployment on " \o p.deploymentPlatform]>>

\* the positions of the bullets of the feature block of a README: the pieces
\* that follow a dash between the features heading and the next heading
BulletPositions(text) ==
    {k \in 2..Len(text) :
        /\ text[k - 1] = Dash
        /\ \E h \in 1..(k - 1) :
              /\ text[h] = FeaturesHeading
              /\ \A j \in h..k : text[j] # StructureHeading}

\* C22: the README of a finished run lists, in its feature block, exactly one
\* bullet for every enabled feature and none for a disabled one, in the
\* order language, testing, linting, git hooks, CI, security, deployment.
C22_FeatureBlockRebuilt ==
    (outcome = "success" /\ "README.md" \in DOMAIN files) =>
        LET readme  == files["README.md"].content
            bullets == FeatureBullets(prefs)
            at      == BulletPositions(readme)
        IN  /\ \A i \in 1..Len(bullets) :
                  Cardinality({k \in at : readme[k] = bullets[i].text})
                     = IF bullets[i].on THEN 1 ELSE 0
            /\ \A k \in at : \E i \in 1..Len(bullets) : readme[k] = bullets[i].text
            /\ \A k, l \in at : \A i, j \in 1..Len(bullets) :
                  (k < l /\ readme[k] = bullets[i].text /\ readme[l] = bullets[j].text) => i < j

\* C23: a run that has changed the filesystem has a project name that is '.'
\* or a non-empty string of letters, digits, dashes and underscores, whether
\* the name was typed at the prompt or given as the command-line argument.
C23_NameValidBeforeMutation ==
    mutated =>
        \/ targetDir = CurrentDirName
        \/ /\ Len(targetDir) > 0
           /\ \A i \in 1..Len(targetDir) : targetDir[i] \in {"a", "Z", "7", "-", "_"}

\* C24: when the install of what the manifest declares fails, that very step
\* ends the run in the failure report: no batched or per-specifier install,
\* git command, Husky command or README write has happened or happens later.
C24_ManifestInstallFailureIsFatal ==
    [][/\ (pc = "install" /\ lastCmd' # lastCmd /\ ~lastCmd'.ok) =>
             /\ outcome' = "failed" /\ pc' = "returned" /\ spinner' = "fail"
             /\ requested' \cap Range(devDependencies \o dependencies) = {}
             /\ DOMAIN files' \cap {".git", ".husky/pre-commit", "README.md"} = {}
             /\ UNCHANGED <<pipeVars, warnings>>
       /\ (outcome = "failed" /\ lastCmd.op = "install" /\ lastCmd.specs = <<>> /\ ~lastCmd.ok) =>
             UNCHANGED <<pipeVars, lastCmd, requested, warnings, outcome>>]_vars

\* the manifest install has failed in a run with linting, testing, git and git
\* hooks selected: the run has failed with the merged manifest on disk and
\* none of the later stages' effects
C24_Witness ==
    /\ outcome = "failed" /\ pc = "returned"
    /\ lastCmd = [bin |-> packageManager, op |-> "install", specs |-> <<>>, ok |-> FALSE]
    /\ Len(written) = 1
    /\ prefs.initGit /\ prefs.setupHusky /\ devDependencies # <<>>
    /\ requested = {}
    /\ ".git" \notin DOMAIN files

\* C25: the step that writes .husky/pre-commit is taken with git hooks
\* selected, right after a successful 'husky install', and with prepare =
\* 'husky install' in the manifest; the hook is never there without the
\* selection and that script. The step of the Husky block that fails prints a
\* warning, writes no hook, leaves the manifest alone unless it is the hook
\* write that failed, and hands over to git add or, without git, the README.
C25_HuskyStage ==
    [][/\ (".husky/pre-commit" \notin DOMAIN files /\ ".husky/pre-commit" \in DOMAIN files') =>
             /\ prefs.setupHusky
             /\ lastCmd.op = "husky install" /\ lastCmd.ok
             /\ HasSentinel(pkg')
       /\ ".husky/pre-commit" \in DOMAIN files' => (prefs'.setupHusky /\ HasSentinel(pkg'))
       /\ ("husky" \in warnings' /\ "husky" \notin warnings) =>
             /\ pc \in {"huskyForce", "huskyInstall", "huskyPrepare"}
             /\ pc' = IF prefs.initGit THEN "gitAdd" ELSE "readme"
             /\ outcome' = "running"
             /\ files' = files
             /\ pc # "huskyPrepare" => pkg' = pkg]_vars

\* the hook has just been written in a run without git: the last command is
\* the successful 'husky install' and the manifest has the prepare script
C25_Witness ==
    /\ pc = "readme" /\ prefs.setupHusky /\ ~prefs.initGit
    /\ ".husky/pre-commit" \in DOMAIN files
    /\ lastCmd.op = "husky install" /\ lastCmd.ok
    /\ HasSentinel(pkg)
    /\ "husky" \notin warnings

\* C26: the generated README is written by the README stage only; in a run
\* with git initialization selected that step comes right after the commit
\* attempt (git commit has returned, or git add has failed), and once the
\* README is there no git add or git commit, nor any other command, is run.
C26_ReadmeAfterCommit ==
    [][/\ ("README.md" \notin DOMAIN files /\ "README.md" \in DOMAIN files') =>
             /\ pc = "readme"
             /\ prefs.initGit =>
                   /\ lastCmd.bin = "git"
                   /\ lastCmd.op = "commit" \/ (lastCmd.op = "add" /\ ~lastCmd.ok)
       /\ "README.md" \in DOMAIN files => lastCmd' = lastCmd
       /\ (lastCmd' # lastCmd /\ lastCmd'.bin = "git") => "README.md" \notin DOMAIN files']_vars

\* a run with git has committed and then written the README
C26_Witness ==
    /\ outcome = "success" /\ prefs.initGit
    /\ "README.md" \in DOMAIN files
    /\ ".git" \in DOMAIN files /\ files[".git"].content = "commit"
    /\ lastCmd = [bin |-> "git", op |-> "commit", specs |-> <<>>, ok |-> TRUE]

\* ------------------------------------------------- the run under fairness
\* the steps of the pipeline: each is the return of an external command or of
\* a filesystem operation the callback awaits
Pipeline ==
    \/ CreateViteProject \/ CreateNextProject \/ CreateNextInstall \/ CopyLicense
    \/ SetupServiceWorkerVite \/ SetupServiceWorkerNextInstall
    \/ SetupServiceWorkerNextFiles \/ StartCopy \/ CopyFile \/ UpdatePackageJsonStep
    \/ Install \/ DevBatch \/ DevFallback \/ DepBatch \/ DepFallback \/ GitInit
    \/ HuskyCommand \/ HuskyPrepare \/ GitAdd \/ GitCommit \/ SetupReadme

\* the answers the run under fairness is checked for
RunSetups == {{}, {"jest"}, {"husky"}, {"git", "husky"}}
RunLanguages == {"javascript", "typescript-sw"}

\* index.js:64-232  the state in which the last confirmation is asked: the
\* directory exists and is empty, pnpm has answered its probe, the answers
\* are in userPreferences
InitRun ==
    /\ pc = "confirmSetup"
    /\ targetDir = <<"a", "-">>
    /\ dir = "empty"
    /\ mutated = TRUE
    /\ packageManager \in PackageManagers
    /\ pnpmAvailable = IF packageManager = "pnpm" THEN "yes" ELSE "unknown"
    /\ onDisk = TemplatesOnDisk
    /\ \E projectType \in ProjectTypes, languageOption \in RunLanguages,
          selectedSetup \in RunSetups :
          prefs = [projectType |-> projectType, packageManager |-> packageManager,
                   useTypeScript |-> UseTypeScript(languageOption),
                   useServiceWorker |-> UseServiceWorker(languageOption),
                   languageOption |-> languageOption,
                   enableLinting |-> "linting" \in selectedSetup,
                   setupJest |-> "jest" \in selectedSetup,
                   setupGithubActions |-> "github" \in selectedSetup,
                   setupSnyk |-> "snyk" \in selectedSetup,
                   deploymentPlatform |-> "none",
                   initGit |-> "git" \in selectedSetup,
                   setupHusky |-> "husky" \in selectedSetup,
                   isCurrentDir |-> FALSE]
    /\ templatesToCopy = <<>>
    /\ pending = {}
    /\ files = NoFiles
    /\ pkg = NoPkg
    /\ additions = NoAdditions
    /\ written = <<>>
    /\ idx = 0
    /\ tried = [dev |-> {}, dep |-> {}]
    /\ spinner = "none"
    /\ sigint = "idle"
    /\ resumed = FALSE
    /\ warnings = {}
    /\ lastCmd = IF packageManager = "pnpm"
                 THEN [bin |-> "pnpm", op |-> "--version", specs |-> <<>>, ok |-> TRUE]
                 ELSE NoCmd
    /\ requested = {}
    /\ outcome = "running"
    /\ exitCode = -1

NextRun == ConfirmSetup \/ Pipeline \/ Sigint \/ SigintAnswer

\* every external command and filesystem operation of the pipeline returns,
\* and the question of the SIGINT handler is answered; a signal need not come
SpecFair == InitRun /\ [][NextRun]_vars /\ WF_vars(Pipeline) /\ WF_vars(SigintAnswer)

\* the run has passed the final confirmation
Confirmed == spinner # "none"

\* the reports and the termination a run can end in
Endings ==
    {e \in {"success report", "failure report", "confirmed interrupt"} :
        \/ e = "success report" /\ spinner = "succeed"
        \/ e = "failure report" /\ spinner = "fail"
        \/ e = "confirmed interrupt" /\ sigint = "exited"}

\* C27: under the fairness of SpecFair a run that has passed the final
\* confirmation eventually ends in the success report, the failure report or
\* the termination by a confirmed interrupt, never in two of them, and a
\* report once made is not followed by the other report.
C27_ExactlyOneEnding ==
    /\ Confirmed ~> (Endings # {})
    /\ [](Cardinality(Endings) <= 1)
    /\ [][(spinner \in {"succeed", "fail"}) => UNCHANGED spinner]_vars

====
